---------------------------- MODULE Spec2Model ----------------------------
(***************************************************************************)
(* The asynchronous render job pipeline of backend_server.py:              *)
(* lovable_render (submission), its background thread do_render, the job   *)
(* registry lovable_render_jobs, _generate_ass_subtitles and serve_video.  *)
(*                                                                         *)
(* Conventions                                                             *)
(*  - times are integers in centiseconds (0.5 s = 50, 3.5 s = 350);        *)
(*  - Python None is the value None; strings are TLA+ strings, except the  *)
(*    text of subtitle words, which are sequences of one-character strings *)
(*    so that strip(), len() and text[-1] can be computed;                 *)
(*  - every write of do_render to the registry is a step of its own, so    *)
(*    every state a concurrent status poll can observe is a state of the   *)
(*    model; an external call (requests.get/post, ffmpeg subprocess) is    *)
(*    one step whose outcome is chosen nondeterministically;               *)
(*  - operations on the local file system (mkdir, write_bytes, copy2,      *)
(*    open/write) are taken to succeed.                                    *)
(***************************************************************************)
EXTENDS Integers, Sequences, FiniteSets, TLC

VARIABLES
    env_key,              \* os.environ.get('SUPABASE_SERVICE_ROLE_KEY')
    lovable_render_jobs,  \* the registry: job id -> entry
    req,                  \* job id -> the request data closed over by do_render
    thread,               \* job id -> the locals of its do_render thread
    fs,                   \* the file system: path -> content
    calls,                \* job id -> the external calls made so far, in order
    response,             \* the last HTTP response of the two lovable-render routes
    pure_call             \* a pure function under evaluation: input and result

vars == <<env_key, lovable_render_jobs, req, thread, fs, calls, response,
          pure_call>>

None == "None"

-----------------------------------------------------------------------------
(* Bounds and input sets *)

MaxScenes == 2

\* the longest segment list given to the cross-fade filter builder on its own
MaxSegments == 3

JobIds == {"j1"}

Max(a, b) == IF a >= b THEN a ELSE b

\* A subtitle word: {word, start, end}; a key may be absent from the dict.
Word(text, s, e) == [word |-> text, start |-> s, end |-> e]

WordInputs ==
    { << >>,                                        \* no timing data
      << Word(<<"H", "i", ".">>, 0, 40) >>,         \* one cue
      << Word(<<" ">>, 0, 40) >>,                   \* only blank words
      << [word |-> <<"H", "i">>, start |-> 0] >> }  \* 'end' key absent

\* scene.get('duration'): absent, a number (centiseconds) or a non-numeric text.
DurMissing == [kind |-> "missing", cs |-> 0]
DurNumber(n) == [kind |-> "number", cs |-> n]
DurText == [kind |-> "text", cs |-> 0]

SceneInputs ==
    { [video_url |-> None,  image_url |-> None,  duration |-> DurNumber(500)],
      [video_url |-> None,  image_url |-> "img", duration |-> DurMissing],
      [video_url |-> "vid", image_url |-> "img", duration |-> DurNumber(30)],
      [video_url |-> None,  image_url |-> "img", duration |-> DurText],
      [video_url |-> None,  image_url |-> None,  duration |-> DurText] }

\* The fetch loop stops at the first scene whose duration raises, so a list
\* holds such a scene in its last place only: what follows it is never read.
SceneLists ==
    {sc \in UNION { [1..n -> SceneInputs] : n \in 1..MaxScenes } :
        \A k \in 1..(Len(sc) - 1) : sc[k].duration.kind # "text"}

\* supabase_url and supabase_key of the request body
CredentialInputs ==
    { [supabase_url |-> None,         supabase_key |-> None],
      [supabase_url |-> "https://sb", supabase_key |-> None],
      [supabase_url |-> "https://sb", supabase_key |-> "anon"] }

\* The request bodies that pass the validation of lovable_render.
Requests ==
    { [project_id |-> "p1", render_id |-> "r1", audio_url |-> "audio",
       scenes |-> sc, word_timestamps |-> wt,
       supabase_url |-> cr.supabase_url, supabase_key |-> cr.supabase_key] :
      sc \in SceneLists, wt \in WordInputs, cr \in CredentialInputs }

-----------------------------------------------------------------------------
(* Pure helpers of do_render *)

\* f"{i:03d}" for the indices the model reaches
Pad3(i) == IF i < 10 THEN "00" \o ToString(i)
           ELSE IF i < 100 THEN "0" \o ToString(i) ELSE ToString(i)

RenderDir(j) == "uploads/temp/lovable/lovable_" \o j

\* OUTPUT_DIR / str(project_id) / f"{render_id}.mp4", as <<directory, name>>
BackupPath(project_id, render_id) ==
    <<"output/" \o project_id, render_id \o ".mp4">>

VpsVideoUrl(project_id, render_id) ==
    "http://31.97.147.132:5001/api/video/" \o project_id \o "/" \o render_id

PublicUrl(supabase_url, project_id, render_id) ==
    supabase_url \o "/storage/v1/object/public/renders/"
                 \o project_id \o "/" \o render_id \o ".mp4"

\* float(scene.get('duration', 10) or 10): raises ValueError on a text
SceneDurationRaises(scene) == scene.duration.kind = "text"

SceneDuration(scene) ==
    IF scene.duration.kind = "missing" \/ scene.duration.cs = 0
    THEN 1000
    ELSE scene.duration.cs

\* max(0.5, float(sf['duration']))
SegmentDuration(sf) == Max(50, sf.duration)

\* faulty variant of FetchProgress: the fraction is scaled to 100, not to the 20 of
\* the fetch stage
FetchProgressUnscaled(i, n) == ((i + 1) * 100) \div Max(n, 1)

\* int(((i + 1) / max(len(scenes), 1)) * 20); the float product truncates to
\* the integer quotient for every list length up to 400.
FetchProgress(i, n) == ((i + 1) * 20) \div Max(n, 1)

\* 20 + int(((i + 1) / len(scene_files)) * 50); equal to the integer
\* quotient for every list length below 50.
SegmentProgress(i, n) == 20 + ((i + 1) * 50) \div n

\* service_role_key = os.environ.get('SUPABASE_SERVICE_ROLE_KEY') or supabase_key
ServiceRoleKey(r) == IF env_key # None THEN env_key ELSE r.supabase_key

\* if supabase_url and service_role_key
HasCredentials(r) == r.supabase_url # None /\ ServiceRoleKey(r) # None

-----------------------------------------------------------------------------
(* _generate_ass_subtitles: cue grouping *)

max_words == 6
max_chars == 40
max_duration == 350

HasKey(w, k) == k \in DOMAIN w

RECURSIVE LStrip(_)
LStrip(s) == IF s # << >> /\ Head(s) = " " THEN LStrip(Tail(s)) ELSE s

RECURSIVE RStrip(_)
RStrip(s) ==
    IF s # << >> /\ s[Len(s)] = " " THEN RStrip(SubSeq(s, 1, Len(s) - 1)) ELSE s

\* str.strip()
Strip(s) == RStrip(LStrip(s))

\* (w.get('word') or '').strip()
WordText(w) == Strip(IF HasKey(w, "word") THEN w.word ELSE << >>)

\* f"{current_text} {word_text}".strip() if current_text else word_text
JoinText(current_text, word_text) ==
    IF current_text # << >>
    THEN Strip(current_text \o <<" ">> \o word_text)
    ELSE word_text

\* reading current_words[0]['start'] or current_words[-1]['end'] raises KeyError
CueRaises(current_words) ==
    \/ ~HasKey(current_words[1], "start")
    \/ ~HasKey(current_words[Len(current_words)], "end")

Cue(current_words, current_text) ==
    [text  |-> current_text,
     start |-> current_words[1].start,
     end   |-> current_words[Len(current_words)].end]

GroupInit ==
    [subtitles |-> << >>, current_words |-> << >>, current_text |-> << >>,
     raised |-> FALSE]

\* (w['end'] - current_words[0]['start']) if current_words else 0
current_duration(st, w) ==
    IF st.current_words # << >>
    THEN w.end - st.current_words[1].start
    ELSE 0

\* faulty variant of should_break: a cue is not closed after a word that ends
\* a sentence
should_break_within_sentence(st, w) ==
    \/ Len(st.current_words) >= max_words
    \/ Len(JoinText(st.current_text, WordText(w))) > max_chars
    \/ current_duration(st, w) > max_duration

\* faulty variant of should_break: a cue may grow to max_words + 1 words
should_break_after_max_words(st, w) ==
    \/ Len(st.current_words) > max_words
    \/ Len(JoinText(st.current_text, WordText(w))) > max_chars
    \/ current_duration(st, w) > max_duration
    \/ /\ st.current_text # << >>
       /\ st.current_text[Len(st.current_text)] \in {".", "!", "?"}

\* the four break conditions, tested before the word is placed
should_break(st, w) ==
    \/ Len(st.current_words) >= max_words
    \/ Len(JoinText(st.current_text, WordText(w))) > max_chars
    \/ current_duration(st, w) > max_duration
    \/ /\ st.current_text # << >>
       /\ st.current_text[Len(st.current_text)] \in {".", "!", "?"}

\* one iteration of `for w in words`
GroupStep(st, w) ==
    LET word_text == WordText(w) IN
    IF st.raised \/ word_text = << >> THEN st
    ELSE IF /\ st.current_words # << >>
            /\ (~HasKey(w, "end") \/ ~HasKey(st.current_words[1], "start"))
    THEN [st EXCEPT !.raised = TRUE]
    ELSE
      LET test_text == JoinText(st.current_text, word_text)
      IN IF should_break(st, w) /\ st.current_words # << >>
         THEN IF CueRaises(st.current_words)
              THEN [st EXCEPT !.raised = TRUE]
              ELSE [subtitles |-> Append(st.subtitles,
                                         Cue(st.current_words, st.current_text)),
                    current_words |-> <<w>>,
                    current_text |-> JoinText(<< >>, word_text),
                    raised |-> FALSE]
         ELSE [st EXCEPT !.current_words = Append(@, w),
                         !.current_text = test_text]

RECURSIVE GroupLoop(_, _)
GroupLoop(st, words) ==
    IF words = << >> THEN st
    ELSE GroupLoop(GroupStep(st, Head(words)), Tail(words))

\* faulty variant of GroupFinish: the words still in current_words when the
\* input ends are not made into a cue
GroupFinishNoFlush(st) == st

\* after the loop: `if current_words: subtitles.append(...)`
GroupFinish(st) ==
    IF st.raised \/ st.current_words = << >> THEN st
    ELSE IF CueRaises(st.current_words) THEN [st EXCEPT !.raised = TRUE]
    ELSE [st EXCEPT !.subtitles = Append(@, Cue(st.current_words,
                                                st.current_text))]

\* group_words(words): the loop, then the flush of the last group
group_words(words) == GroupFinish(GroupLoop(GroupInit, words))

\* faulty variant of GenerateAssSubtitles: a subtitle file is written even
\* when the grouping yields no cue
GenerateAssSubtitlesEmptyTrack(word_timestamps) ==
    IF word_timestamps = << >> THEN "false"
    ELSE IF group_words(word_timestamps).raised THEN "raise" ELSE "true"

\* _generate_ass_subtitles: "true" (file written), "false" or "raise"
GenerateAssSubtitles(word_timestamps) ==
    IF word_timestamps = << >> THEN "false"
    ELSE LET g == group_words(word_timestamps) IN
         IF g.raised THEN "raise"
         ELSE IF g.subtitles = << >> THEN "false"
         ELSE "true"

-----------------------------------------------------------------------------
(* State helpers *)

NoExc == [type |-> "none", msg |-> ""]

DownloadResults == {"ok", "http_error", "timeout"}
EncoderResults == {"ok", "nonzero", "timeout"}
UploadResults == {"ok", "rejected", "error"}
PatchResults == {"ok", "error"}

Started(j) == j \in DOMAIN thread
At(j, p) == Started(j) /\ thread[j].pc = p

\* faulty variant of SetField: job_id is not a local of the submission but a
\* name shared by all threads, so a write reaches every entry
SetFieldShared(j, key, val) ==
    lovable_render_jobs' =
        [k \in DOMAIN lovable_render_jobs |->
            (key :> val) @@ lovable_render_jobs[k]]

\* lovable_render_jobs[job_id][key] = val
SetField(j, key, val) ==
    lovable_render_jobs' =
        [lovable_render_jobs EXCEPT ![j] = (key :> val) @@ @]

Goto(j, p) == thread' = [thread EXCEPT ![j].pc = p]

\* raise: control passes to the except clauses of do_render
Raise(j, type, msg) ==
    thread' = [thread EXCEPT ![j].pc = "except",
                             ![j].exc = [type |-> type, msg |-> msg]]

\* args: the numbers given to the call (a segment's -t, the xfade offsets)
Call(j, op, target, args, result) ==
    calls' = [calls EXCEPT ![j] =
                 Append(@, [op |-> op, target |-> target, args |-> args,
                            result |-> result])]

WriteFile(path, content) == fs' = (path :> content) @@ fs

InDir(dir, name) == <<dir, name>>

-----------------------------------------------------------------------------
(* The HTTP side of lovable_render and lovable_render_status *)

\* jsonify(body), status
Response(route, code, body) == [route |-> route, code |-> code, body |-> body]

NoResponse == Response("none", 0, << >>)

NoPureCall ==
    [fn |-> "none", input |-> << >>, output |-> << >>, returned |-> FALSE]

VPS_API_KEY == "vps-api-key"

\* request.headers.get('Authorization', ''): its first seven characters and
\* the rest
AuthHeaders ==
    { [prefix |-> "",        rest |-> ""],
      [prefix |-> "Basic ",  rest |-> VPS_API_KEY],
      [prefix |-> "Bearer ", rest |-> "other"],
      [prefix |-> "Bearer ", rest |-> VPS_API_KEY] }

verify_lovable_api_key(auth_header) ==
    /\ auth_header.prefix = "Bearer "
    /\ auth_header.rest = VPS_API_KEY

\* A JSON body: the members read by lovable_render, None for an absent member,
\* and in scenes_json the kind of the 'scenes' member: "list", "null" (absent
\* or null) or "object" (a non-empty JSON object); scenes holds the list.
Body(data, kind) == [scenes_json |-> kind] @@ data

\* the request bodies of the specifications with more than the pipeline: one
\* that reaches the cross-fade, the subtitles and the upload, and the
\* one-scene jobs without subtitles and credentials
ApiRequests ==
    { r \in Requests :
        \/ /\ Len(r.scenes) = 2
           /\ r.scenes[1].video_url = None /\ r.scenes[1].image_url # None
           /\ r.scenes[1].duration = DurMissing
           /\ r.scenes[2].video_url # None
           /\ GenerateAssSubtitles(r.word_timestamps) = "true"
           /\ r.supabase_key # None
        \/ /\ Len(r.scenes) = 1
           /\ r.word_timestamps = << >>
           /\ r.supabase_url = None }

BaseBody ==
    [scenes_json |-> "list", project_id |-> "p1", render_id |-> "r1",
     audio_url |-> "audio",
     scenes |-> << [video_url |-> None, image_url |-> "img",
                    duration |-> DurMissing] >>,
     word_timestamps |-> << >>, supabase_url |-> None, supabase_key |-> None]

\* bodies with a required member absent or empty
InvalidBodies ==
    { [BaseBody EXCEPT !.project_id = None],
      [BaseBody EXCEPT !.project_id = ""],
      [BaseBody EXCEPT !.render_id = None],
      [BaseBody EXCEPT !.audio_url = None],
      [BaseBody EXCEPT !.audio_url = ""],
      [BaseBody EXCEPT !.scenes = << >>],
      [BaseBody EXCEPT !.scenes = << >>, !.scenes_json = "null"],
      [BaseBody EXCEPT !.scenes = << >>, !.scenes_json = "object"] }

ApiBodies == {Body(r, "list") : r \in ApiRequests} \cup InvalidBodies

\* Python truth of a string member: absent, null and "" are false
Truthy(x) == x # None /\ x # ""

\* scenes = data.get('scenes') or []
ScenesLocal(body) == IF body.scenes_json = "list" THEN body.scenes ELSE << >>

\* isinstance(scenes, list): an absent or null member has become []
ScenesIsList(body) == body.scenes_json # "object"

\* faulty variant of ValidBody: the scene list is not examined
ValidBodyAnyScenes(body) ==
    /\ Truthy(body.project_id)
    /\ Truthy(body.render_id)
    /\ Truthy(body.audio_url)

\* the negation of the condition of the 400 response
ValidBody(body) ==
    /\ Truthy(body.project_id)
    /\ Truthy(body.render_id)
    /\ Truthy(body.audio_url)
    /\ ScenesIsList(body)
    /\ Len(ScenesLocal(body)) # 0

\* the locals do_render closes over
Locals(body) ==
    [project_id |-> body.project_id, render_id |-> body.render_id,
     audio_url |-> body.audio_url, scenes |-> ScenesLocal(body),
     word_timestamps |-> body.word_timestamps,
     supabase_url |-> body.supabase_url, supabase_key |-> body.supabase_key]

\* a response that leaves the registry and the jobs alone
Respond(route, code, body) ==
    /\ response' = Response(route, code, body)
    /\ UNCHANGED <<pure_call, env_key, lovable_render_jobs, req, thread, fs,
                   calls>>

ErrorBody(text) == [success |-> FALSE, error |-> text]

-----------------------------------------------------------------------------
(* lovable_render: the submission handler *)

Init ==
    /\ env_key \in {None, "service_role"}
    /\ lovable_render_jobs = << >>
    /\ req = << >>
    /\ thread = << >>
    /\ fs = << >>
    /\ calls = << >>
    /\ response = NoResponse
    /\ pure_call = NoPureCall

NewJob ==
    [status |-> "queued", progress |-> 0, message |-> "Queued for rendering",
     video_url |-> None, error |-> None]

NewThread ==
    [pc |-> "start", i |-> 0, scene_files |-> << >>, segment_files |-> << >>,
     final_video |-> None, render_dir |-> None, exc |-> NoExc]

\* a valid request: the entry is created, then the thread is started, then
\* the job id is returned
Submit(j, data) ==
    /\ j \notin DOMAIN lovable_render_jobs
    /\ lovable_render_jobs' = (j :> NewJob) @@ lovable_render_jobs
    /\ req' = (j :> data) @@ req
    /\ thread' = (j :> NewThread) @@ thread
    /\ calls' = (j :> << >>) @@ calls
    /\ response' = Response("lovable_render", 200,
                            [success |-> TRUE, job_id |-> j])
    /\ UNCHANGED <<pure_call, env_key, fs>>

\* POST /api/lovable-render
lovable_render(j, auth_header, body) ==
    IF ~verify_lovable_api_key(auth_header)
    THEN Respond("lovable_render", 401, ErrorBody("Unauthorized"))
    ELSE IF ~ValidBody(body)
    THEN Respond("lovable_render", 400, ErrorBody("Missing required fields"))
    ELSE Submit(j, Locals(body))

\* {'success': True, **job}
StatusBody(job) == ("success" :> TRUE) @@ job

\* GET /api/lovable-render/<job_id>/status
lovable_render_status(job_id, auth_header) ==
    IF ~verify_lovable_api_key(auth_header)
    THEN Respond("lovable_render_status", 401, ErrorBody("Unauthorized"))
    ELSE IF job_id \notin DOMAIN lovable_render_jobs
    THEN Respond("lovable_render_status", 404, ErrorBody("Job not found"))
    ELSE Respond("lovable_render_status", 200,
                 StatusBody(lovable_render_jobs[job_id]))

-----------------------------------------------------------------------------
(* do_render: fetch stage *)

StartRendering(j) ==
    /\ At(j, "start")
    /\ SetField(j, "status", "rendering")
    /\ Goto(j, "msg_preparing")
    /\ UNCHANGED <<response, pure_call, env_key, req, fs, calls>>

MsgPreparing(j) ==
    /\ At(j, "msg_preparing")
    /\ SetField(j, "message", "Preparing...")
    /\ thread' = [thread EXCEPT ![j].pc = "msg_audio",
                                ![j].render_dir = RenderDir(j)]
    /\ UNCHANGED <<response, pure_call, env_key, req, fs, calls>>

MsgDownloadingAudio(j) ==
    /\ At(j, "msg_audio")
    /\ SetField(j, "message", "Downloading audio...")
    /\ Goto(j, "get_audio")
    /\ UNCHANGED <<response, pure_call, env_key, req, fs, calls>>

\* faulty variant of DownloadAudio: raise_for_status() is not called, so the
\* body of an error response is written as the narration
DownloadAudioUnchecked(j) ==
    /\ At(j, "get_audio")
    /\ \E res \in DownloadResults :
        /\ Call(j, "get_audio", req[j].audio_url, << >>, res)
        /\ IF res \in {"ok", "http_error"}
           THEN /\ WriteFile(InDir(RenderDir(j), "audio.mp3"),
                             "bytes:" \o req[j].audio_url)
                /\ Goto(j, "msg_media")
           ELSE /\ Raise(j, "Exception", "requests: audio " \o res)
                /\ UNCHANGED fs
    /\ UNCHANGED <<response, pure_call, env_key, lovable_render_jobs, req>>

DownloadAudio(j) ==
    /\ At(j, "get_audio")
    /\ \E res \in DownloadResults :
        /\ Call(j, "get_audio", req[j].audio_url, << >>, res)
        /\ IF res = "ok"
           THEN /\ WriteFile(InDir(RenderDir(j), "audio.mp3"),
                             "bytes:" \o req[j].audio_url)
                /\ Goto(j, "msg_media")
           ELSE /\ Raise(j, "Exception", "requests: audio " \o res)
                /\ UNCHANGED fs
    /\ UNCHANGED <<response, pure_call, env_key, lovable_render_jobs, req>>

MsgDownloadingMedia(j) ==
    /\ At(j, "msg_media")
    /\ SetField(j, "message", "Downloading media...")
    /\ thread' = [thread EXCEPT ![j].pc = "scene", ![j].i = 0,
                                ![j].scene_files = << >>]
    /\ UNCHANGED <<response, pure_call, env_key, req, fs, calls>>

\* the scene the download loop is at (enumerate is 0-based)
CurrentScene(j) == req[j].scenes[thread[j].i + 1]

InSceneLoop(j) == At(j, "scene") /\ thread[j].i < Len(req[j].scenes)

\* float(...) raises ValueError before any reference is looked at
SceneDurationError(j) ==
    /\ InSceneLoop(j)
    /\ SceneDurationRaises(CurrentScene(j))
    /\ Raise(j, "Exception", "could not convert string to float")
    /\ UNCHANGED <<response, pure_call, env_key, lovable_render_jobs, req, fs, calls>>

\* faulty variant of SceneIsVideo: a scene that also carries an image
\* reference is not taken from its video
SceneIsVideoOnly(scene) == scene.video_url # None /\ scene.image_url = None

\* video_url is looked at first, then image_url
SceneIsVideo(scene) == scene.video_url # None
SceneIsImage(scene) == scene.video_url = None /\ scene.image_url # None

SceneFileName(i, is_video) ==
    IF is_video THEN "scene_" \o Pad3(i) \o "_video.mp4"
    ELSE "scene_" \o Pad3(i) \o ".png"

DownloadScene(j) ==
    /\ InSceneLoop(j)
    /\ ~SceneDurationRaises(CurrentScene(j))
    /\ SceneIsVideo(CurrentScene(j)) \/ SceneIsImage(CurrentScene(j))
    /\ LET scene == CurrentScene(j)
           i == thread[j].i
           is_video == SceneIsVideo(scene)
           url == IF is_video THEN scene.video_url ELSE scene.image_url
           path == InDir(RenderDir(j), SceneFileName(i, is_video))
       IN \E res \in DownloadResults :
           /\ Call(j, IF is_video THEN "get_video" ELSE "get_image",
                   url, << >>, res)
           /\ IF res = "ok"
              THEN /\ WriteFile(path, "bytes:" \o url)
                   /\ thread' =
                        [thread EXCEPT
                           ![j].pc = "scene_progress",
                           ![j].scene_files =
                               Append(@, [path |-> path,
                                          duration |-> SceneDuration(scene),
                                          is_video |-> is_video])]
              ELSE /\ Raise(j, "Exception", "requests: scene " \o res)
                   /\ UNCHANGED fs
    /\ UNCHANGED <<response, pure_call, env_key, lovable_render_jobs, req>>

\* neither reference: `continue`, without a progress write
SkipScene(j) ==
    /\ InSceneLoop(j)
    /\ ~SceneDurationRaises(CurrentScene(j))
    /\ ~SceneIsVideo(CurrentScene(j)) /\ ~SceneIsImage(CurrentScene(j))
    /\ thread' = [thread EXCEPT ![j].i = @ + 1]
    /\ UNCHANGED <<response, pure_call, env_key, lovable_render_jobs, req, fs, calls>>

SceneProgress(j) ==
    /\ At(j, "scene_progress")
    /\ SetField(j, "progress",
                FetchProgress(thread[j].i, Len(req[j].scenes)))
    /\ thread' = [thread EXCEPT ![j].pc = "scene", ![j].i = @ + 1]
    /\ UNCHANGED <<response, pure_call, env_key, req, fs, calls>>

ScenesDone(j) == At(j, "scene") /\ thread[j].i = Len(req[j].scenes)

\* faulty variant of NoValidScenes: the empty scene_files list is not rejected
NoValidScenesUnchecked(j) ==
    /\ ScenesDone(j)
    /\ thread[j].scene_files = << >>
    /\ thread' = [thread EXCEPT ![j].pc = "segment", ![j].i = 0]
    /\ UNCHANGED <<response, pure_call, env_key, lovable_render_jobs, req, fs, calls>>

NoValidScenes(j) ==
    /\ ScenesDone(j)
    /\ thread[j].scene_files = << >>
    /\ Raise(j, "Exception", "No valid scenes with image_url or video_url")
    /\ UNCHANGED <<response, pure_call, env_key, lovable_render_jobs, req, fs, calls>>

-----------------------------------------------------------------------------
(* do_render: segment stage *)

MsgRenderingSegments(j) ==
    /\ ScenesDone(j)
    /\ thread[j].scene_files # << >>
    /\ SetField(j, "message", "Rendering video segments...")
    /\ thread' = [thread EXCEPT ![j].pc = "segment", ![j].i = 0,
                                ![j].segment_files = << >>]
    /\ UNCHANGED <<response, pure_call, env_key, req, fs, calls>>

InSegmentLoop(j) ==
    At(j, "segment") /\ thread[j].i < Len(thread[j].scene_files)

SegmentFailure(i, res) ==
    IF res = "timeout"
    THEN "FFmpeg segment " \o ToString(i) \o " timed out after 300s"
    ELSE "FFmpeg segment " \o ToString(i) \o " failed (rc=1): stderr[-2000:]"

\* faulty variant of RenderSegment: a failed segment is logged and left out,
\* and the loop goes on to the next scene
RenderSegmentSkippingFailure(j) ==
    /\ InSegmentLoop(j)
    /\ LET i == thread[j].i
           sf == thread[j].scene_files[i + 1]
           segment_path == InDir(RenderDir(j), "segment_" \o Pad3(i) \o ".mp4")
       IN \E res \in EncoderResults :
           /\ Call(j, "ffmpeg_segment", segment_path[2],
                   <<SegmentDuration(sf)>>, res)
           /\ IF res = "ok"
              THEN /\ WriteFile(segment_path, j \o ":segment_" \o Pad3(i))
                   /\ thread' = [thread EXCEPT
                                   ![j].pc = "segment_progress",
                                   ![j].segment_files = Append(@, segment_path)]
              ELSE /\ Goto(j, "segment_progress")
                   /\ UNCHANGED fs
    /\ UNCHANGED <<response, pure_call, env_key, lovable_render_jobs, req>>

RenderSegment(j) ==
    /\ InSegmentLoop(j)
    /\ LET i == thread[j].i
           sf == thread[j].scene_files[i + 1]
           segment_path == InDir(RenderDir(j), "segment_" \o Pad3(i) \o ".mp4")
       IN \E res \in EncoderResults :
           /\ Call(j, "ffmpeg_segment", segment_path[2],
                   <<SegmentDuration(sf)>>, res)
           /\ IF res = "ok"
              THEN /\ WriteFile(segment_path, j \o ":segment_" \o Pad3(i))
                   /\ thread' = [thread EXCEPT
                                   ![j].pc = "segment_progress",
                                   ![j].segment_files = Append(@, segment_path)]
              ELSE /\ Raise(j, "Exception", SegmentFailure(i, res))
                   /\ UNCHANGED fs
    /\ UNCHANGED <<response, pure_call, env_key, lovable_render_jobs, req>>

SegmentProgressWrite(j) ==
    /\ At(j, "segment_progress")
    /\ SetField(j, "progress",
                SegmentProgress(thread[j].i, Len(thread[j].scene_files)))
    /\ Goto(j, "segment_message")
    /\ UNCHANGED <<response, pure_call, env_key, req, fs, calls>>

SegmentMessage(j) ==
    /\ At(j, "segment_message")
    /\ SetField(j, "message",
                "Rendered segment " \o ToString(thread[j].i + 1) \o "/"
                    \o ToString(Len(thread[j].scene_files)))
    /\ thread' = [thread EXCEPT ![j].pc = "segment", ![j].i = @ + 1]
    /\ UNCHANGED <<response, pure_call, env_key, req, fs, calls>>

-----------------------------------------------------------------------------
(* do_render: assembly *)

fade_duration == 50

RECURSIVE SumDurations(_, _)
\* cumulative_duration after the iterations 0..k-1 of the offset loop
SumDurations(scene_files, k) ==
    IF k = 0 THEN 0
    ELSE SumDurations(scene_files, k - 1) + SegmentDuration(scene_files[k])

\* faulty variant of XfadeOffsets: every earlier cross-fade is taken to
\* shorten the timeline by fade_duration
XfadeOffsetsOverlapped(scene_files) ==
    [k \in 1..(Len(scene_files) - 1) |->
        SumDurations(scene_files, k) - k * fade_duration]

\* the offset of every transition i in range(len(scene_files) - 1)
XfadeOffsets(scene_files) ==
    [k \in 1..(Len(scene_files) - 1) |->
        SumDurations(scene_files, k) - fade_duration]

SilentVideo(j) == InDir(RenderDir(j), "silent.mp4")

MsgAddingTransitions(j) ==
    /\ At(j, "segment")
    /\ thread[j].i = Len(thread[j].scene_files)
    /\ SetField(j, "message", "Adding transitions...")
    /\ Goto(j, "assemble")
    /\ UNCHANGED <<response, pure_call, env_key, req, fs, calls>>

\* faulty variant of CopySingleSegment: the single segment is sent through
\* the concat demuxer like any other list
CopySingleSegmentViaConcat(j) ==
    /\ At(j, "assemble")
    /\ Len(thread[j].segment_files) = 1
    /\ Call(j, "ffmpeg_concat", "silent.mp4", << >>, "ok")
    /\ WriteFile(SilentVideo(j), j \o ":silent(concat)")
    /\ Goto(j, "progress75")
    /\ UNCHANGED <<response, pure_call, env_key, lovable_render_jobs, req>>

\* len(segment_files) == 1: shutil.copy2, no encoder
CopySingleSegment(j) ==
    /\ At(j, "assemble")
    /\ Len(thread[j].segment_files) = 1
    /\ WriteFile(SilentVideo(j), fs[thread[j].segment_files[1]])
    /\ Goto(j, "progress75")
    /\ UNCHANGED <<response, pure_call, env_key, lovable_render_jobs, req, calls>>

\* faulty variant of AfterXfade: communicate() without a timeout never returns when
\* the encoder hangs
AfterXfadeNoTimeout(res) ==
    CASE res = "ok" -> "progress75"
      [] res = "nonzero" -> "concat"
      [] res = "timeout" -> "blocked"

\* where the xfade invocation's outcome leads
AfterXfade(res) ==
    CASE res = "ok" -> "progress75"
      [] res = "nonzero" -> "concat"
      [] res = "timeout" -> "except"

Xfade(j) ==
    /\ At(j, "assemble")
    /\ Len(thread[j].segment_files) # 1
    /\ \E res \in EncoderResults :
        /\ Call(j, "ffmpeg_xfade", "silent.mp4",
                XfadeOffsets(thread[j].scene_files), res)
        /\ IF AfterXfade(res) = "except"
           THEN Raise(j, "Exception", "FFmpeg xfade timed out after 900s")
           ELSE Goto(j, AfterXfade(res))
        /\ IF res = "ok"
           THEN WriteFile(SilentVideo(j), j \o ":silent(xfade)")
           ELSE UNCHANGED fs
    /\ UNCHANGED <<response, pure_call, env_key, lovable_render_jobs, req>>

\* faulty variant of ConcatFallback: the return code of the concat run is not
\* examined, so a non-zero exit is taken for an assembled video
ConcatFallbackUnchecked(j) ==
    /\ At(j, "concat")
    /\ \E res \in EncoderResults :
        /\ Call(j, "ffmpeg_concat", "silent.mp4", << >>, res)
        /\ CASE res \in {"ok", "nonzero"} ->
                  /\ fs' = (SilentVideo(j) :> (j \o ":silent(concat)"))
                           @@ (InDir(RenderDir(j), "concat.txt") :> "file list")
                           @@ fs
                  /\ Goto(j, "progress75")
             [] res = "timeout" ->
                  /\ WriteFile(InDir(RenderDir(j), "concat.txt"), "file list")
                  /\ Raise(j, "TimeoutExpired", "FFmpeg timed out after 600s")
    /\ UNCHANGED <<response, pure_call, env_key, lovable_render_jobs, req>>

\* the fallback: concat.txt lists segment_files in order; a non-zero exit
\* raises Exception, a timeout leaves communicate() as TimeoutExpired
ConcatFallback(j) ==
    /\ At(j, "concat")
    /\ \E res \in EncoderResults :
        /\ Call(j, "ffmpeg_concat", "silent.mp4", << >>, res)
        /\ CASE res = "ok" ->
                  /\ fs' = (SilentVideo(j) :> (j \o ":silent(concat)"))
                           @@ (InDir(RenderDir(j), "concat.txt") :> "file list")
                           @@ fs
                  /\ Goto(j, "progress75")
             [] res = "nonzero" ->
                  /\ WriteFile(InDir(RenderDir(j), "concat.txt"), "file list")
                  /\ Raise(j, "Exception",
                           "FFmpeg concat fallback failed: stderr[-2000:]")
             [] res = "timeout" ->
                  /\ WriteFile(InDir(RenderDir(j), "concat.txt"), "file list")
                  /\ Raise(j, "TimeoutExpired", "FFmpeg timed out after 600s")
    /\ UNCHANGED <<response, pure_call, env_key, lovable_render_jobs, req>>

Progress75(j) ==
    /\ At(j, "progress75")
    /\ SetField(j, "progress", 75)
    /\ Goto(j, "msg_adding_audio")
    /\ UNCHANGED <<response, pure_call, env_key, req, fs, calls>>

-----------------------------------------------------------------------------
(* do_render: audio merge *)

MsgAddingAudio(j) ==
    /\ At(j, "msg_adding_audio")
    /\ SetField(j, "message", "Adding audio...")
    /\ Goto(j, "merge")
    /\ UNCHANGED <<response, pure_call, env_key, req, fs, calls>>

\* render_dir / f"{project_id}_{render_id}.mp4"
MergedVideo(j) ==
    InDir(RenderDir(j), req[j].project_id \o "_" \o req[j].render_id \o ".mp4")

\* render_dir / f"{project_id}_{render_id}_subs.mp4"
VideoWithSubs(j) ==
    InDir(RenderDir(j),
          req[j].project_id \o "_" \o req[j].render_id \o "_subs.mp4")

MergeFailure(res) ==
    IF res = "timeout" THEN "FFmpeg audio merge timed out after 600s"
    ELSE "FFmpeg audio merge failed (rc=1): stderr[-2000:]"

MergeAudio(j) ==
    /\ At(j, "merge")
    /\ \E res \in EncoderResults :
        /\ Call(j, "ffmpeg_merge", MergedVideo(j)[2], << >>, res)
        /\ IF res = "ok"
           THEN /\ WriteFile(MergedVideo(j), j \o ":merged")
                /\ thread' = [thread EXCEPT ![j].pc = "progress82",
                                            ![j].final_video = MergedVideo(j)]
           ELSE /\ Raise(j, "Exception", MergeFailure(res))
                /\ UNCHANGED fs
    /\ UNCHANGED <<response, pure_call, env_key, lovable_render_jobs, req>>

Progress82(j) ==
    /\ At(j, "progress82")
    /\ SetField(j, "progress", 82)
    /\ Goto(j, "subtitles")
    /\ UNCHANGED <<response, pure_call, env_key, req, fs, calls>>

-----------------------------------------------------------------------------
(* do_render: subtitles *)

\* if word_timestamps and len(word_timestamps) > 0
HasWordTimestamps(j) == req[j].word_timestamps # << >>

MsgAddingSubtitles(j) ==
    /\ At(j, "subtitles")
    /\ HasWordTimestamps(j)
    /\ SetField(j, "message", "Adding subtitles...")
    /\ Goto(j, "generate_ass")
    /\ UNCHANGED <<response, pure_call, env_key, req, fs, calls>>

\* the call of _generate_ass_subtitles is outside every try block but the
\* outermost one of do_render
GenerateAss(j) ==
    /\ At(j, "generate_ass")
    /\ LET out == GenerateAssSubtitles(req[j].word_timestamps) IN
       CASE out = "true" ->
              /\ WriteFile(InDir(RenderDir(j), "subtitles.ass"), j \o ":ass")
              /\ Goto(j, "burn")
         [] out = "false" ->
              /\ Goto(j, "progress90")
              /\ UNCHANGED fs
         [] out = "raise" ->
              /\ Raise(j, "Exception", "KeyError")
              /\ UNCHANGED fs
    /\ UNCHANGED <<response, pure_call, env_key, lovable_render_jobs, req, calls>>

\* final_video after the burn-in returned `res`
AfterBurn(j, res) ==
    IF res = "ok" THEN VideoWithSubs(j) ELSE thread[j].final_video

BurnSubtitles(j) ==
    /\ At(j, "burn")
    /\ \E res \in EncoderResults :
        /\ Call(j, "ffmpeg_subs", VideoWithSubs(j)[2], << >>, res)
        /\ IF res = "ok"
           THEN WriteFile(VideoWithSubs(j), j \o ":merged+subs")
           ELSE UNCHANGED fs
        /\ thread' = [thread EXCEPT ![j].pc = "progress90",
                                    ![j].final_video = AfterBurn(j, res)]
    /\ UNCHANGED <<response, pure_call, env_key, lovable_render_jobs, req>>

Progress90(j) ==
    /\ \/ At(j, "progress90")
       \/ At(j, "subtitles") /\ ~HasWordTimestamps(j)
    /\ SetField(j, "progress", 90)
    /\ Goto(j, "backup")
    /\ UNCHANGED <<response, pure_call, env_key, req, fs, calls>>

-----------------------------------------------------------------------------
(* do_render: publish *)

\* faulty variant of BackupCopy: the local copy is made only when no upload follows
BackupCopyOnlyWithoutUpload(j) ==
    /\ At(j, "backup")
    /\ IF HasCredentials(req[j])
       THEN UNCHANGED fs
       ELSE WriteFile(BackupPath(req[j].project_id, req[j].render_id),
                      fs[thread[j].final_video])
    /\ Goto(j, "set_local_path")
    /\ UNCHANGED <<response, pure_call, env_key, lovable_render_jobs, req, calls>>

\* shutil.copy2(final_video, backup_path)
BackupCopy(j) ==
    /\ At(j, "backup")
    /\ WriteFile(BackupPath(req[j].project_id, req[j].render_id),
                 fs[thread[j].final_video])
    /\ Goto(j, "set_local_path")
    /\ UNCHANGED <<response, pure_call, env_key, lovable_render_jobs, req, calls>>

\* faulty variant of SetLocalPath: the backup is published as the job's
\* video_url as soon as it exists, before the upload is attempted
SetLocalPathAsVideoUrl(j) ==
    /\ At(j, "set_local_path")
    /\ SetField(j, "video_url",
                VpsVideoUrl(req[j].project_id, req[j].render_id))
    /\ Goto(j, "msg_uploading")
    /\ UNCHANGED <<response, pure_call, env_key, req, fs, calls>>

SetLocalPath(j) ==
    /\ At(j, "set_local_path")
    /\ SetField(j, "local_path",
                "output/" \o req[j].project_id \o "/"
                    \o req[j].render_id \o ".mp4")
    /\ Goto(j, "msg_uploading")
    /\ UNCHANGED <<response, pure_call, env_key, req, fs, calls>>

MsgUploading(j) ==
    /\ At(j, "msg_uploading")
    /\ SetField(j, "message", "Uploading...")
    /\ Goto(j, "upload")
    /\ UNCHANGED <<response, pure_call, env_key, req, fs, calls>>

\* where the outcome of requests.post leads: a status in (200, 201), any
\* other status, or an exception raised by requests
AfterUpload(res) ==
    CASE res = "ok" -> "set_public_url"
      [] res = "rejected" -> "set_vps_url"
      [] res = "error" -> "except"

Upload(j) ==
    /\ At(j, "upload")
    /\ HasCredentials(req[j])
    /\ \E res \in UploadResults :
        /\ Call(j, "post_upload",
                req[j].project_id \o "/" \o req[j].render_id \o ".mp4",
                << >>, res)
        /\ IF AfterUpload(res) = "except"
           THEN Raise(j, "Exception", "requests: upload error")
           ELSE Goto(j, AfterUpload(res))
    /\ UNCHANGED <<response, pure_call, env_key, lovable_render_jobs, req, fs>>

\* faulty variant of SetPublicUrl: the public URL is not stored before the
\* status is set
SetPublicUrlSkipped(j) ==
    /\ At(j, "set_public_url")
    /\ Goto(j, "set_completed")
    /\ UNCHANGED <<response, pure_call, env_key, lovable_render_jobs, req, fs,
                   calls>>

SetPublicUrl(j) ==
    /\ At(j, "set_public_url")
    /\ SetField(j, "video_url",
                PublicUrl(req[j].supabase_url, req[j].project_id,
                          req[j].render_id))
    /\ Goto(j, "set_completed")
    /\ UNCHANGED <<response, pure_call, env_key, req, fs, calls>>

\* upload answered with another status: the VPS endpoint, then upload_error
SetVpsUrlAfterRejection(j) ==
    /\ At(j, "set_vps_url")
    /\ SetField(j, "video_url",
                VpsVideoUrl(req[j].project_id, req[j].render_id))
    /\ Goto(j, "set_upload_error")
    /\ UNCHANGED <<response, pure_call, env_key, req, fs, calls>>

SetUploadError(j) ==
    /\ At(j, "set_upload_error")
    /\ SetField(j, "upload_error", "status: text[:300]")
    /\ Goto(j, "set_completed")
    /\ UNCHANGED <<response, pure_call, env_key, req, fs, calls>>

\* no credentials: no request is made
SetVpsUrlNoCredentials(j) ==
    /\ At(j, "upload")
    /\ ~HasCredentials(req[j])
    /\ SetField(j, "video_url",
                VpsVideoUrl(req[j].project_id, req[j].render_id))
    /\ Goto(j, "set_completed")
    /\ UNCHANGED <<response, pure_call, env_key, req, fs, calls>>

SetCompleted(j) ==
    /\ At(j, "set_completed")
    /\ SetField(j, "status", "completed")
    /\ Goto(j, "set_progress100")
    /\ UNCHANGED <<response, pure_call, env_key, req, fs, calls>>

SetProgress100(j) ==
    /\ At(j, "set_progress100")
    /\ SetField(j, "progress", 100)
    /\ Goto(j, "msg_complete")
    /\ UNCHANGED <<response, pure_call, env_key, req, fs, calls>>

MsgRenderComplete(j) ==
    /\ At(j, "msg_complete")
    /\ SetField(j, "message", "Render complete")
    /\ Goto(j, "update_render")
    /\ UNCHANGED <<response, pure_call, env_key, req, fs, calls>>

-----------------------------------------------------------------------------
(* do_render: except clauses, _update_render_in_supabase, finally *)

ExceptStatus(j) ==
    /\ At(j, "except")
    /\ SetField(j, "status", "failed")
    /\ Goto(j, "except_error")
    /\ UNCHANGED <<response, pure_call, env_key, req, fs, calls>>

ExceptError(j) ==
    /\ At(j, "except_error")
    /\ SetField(j, "error", thread[j].exc.msg)
    /\ Goto(j, "except_message")
    /\ UNCHANGED <<response, pure_call, env_key, req, fs, calls>>

\* TimeoutExpired: message = msg; Exception: message = f"Error: {e}"
ExceptMessage(j) ==
    /\ At(j, "except_message")
    /\ SetField(j, "message",
                IF thread[j].exc.type = "TimeoutExpired"
                THEN thread[j].exc.msg
                ELSE "Error: " \o thread[j].exc.msg)
    /\ Goto(j, "update_render")
    /\ UNCHANGED <<response, pure_call, env_key, req, fs, calls>>

\* faulty variant of UpdateRenderInSupabase: an exception of the PATCH issued from the
\* try block is not swallowed and reaches `except Exception`
UpdateRenderInSupabaseRaising(j) ==
    /\ At(j, "update_render")
    /\ IF HasCredentials(req[j])
       THEN \E res \in PatchResults :
               /\ Call(j, "patch_renders", req[j].render_id, << >>, res)
               /\ IF res = "error" /\ lovable_render_jobs[j].status = "completed"
                  THEN Raise(j, "Exception", "requests: patch error")
                  ELSE Goto(j, "finally")
       ELSE UNCHANGED calls /\ Goto(j, "finally")
    /\ UNCHANGED <<response, pure_call, env_key, lovable_render_jobs, req, fs>>

\* _update_render_in_supabase(supabase_url, _sb_key, render_id, ...): returns
\* at once without url or key; every exception of the PATCH is swallowed
UpdateRenderInSupabase(j) ==
    /\ At(j, "update_render")
    /\ IF HasCredentials(req[j])
       THEN \E res \in PatchResults :
               Call(j, "patch_renders", req[j].render_id, << >>, res)
       ELSE UNCHANGED calls
    /\ Goto(j, "finally")
    /\ UNCHANGED <<response, pure_call, env_key, lovable_render_jobs, req, fs>>

\* shutil.rmtree(render_dir, ignore_errors=True)
RmTree(dir) == [p \in {q \in DOMAIN fs : q[1] # dir} |-> fs[p]]

\* faulty variant of Finally: the entry of a completed job is dropped from the
\* registry together with its working directory
FinallyDroppingEntry(j) ==
    /\ At(j, "finally")
    /\ IF lovable_render_jobs[j].status = "completed"
          /\ thread[j].render_dir # None
       THEN /\ fs' = RmTree(thread[j].render_dir)
            /\ lovable_render_jobs' =
                 [k \in DOMAIN lovable_render_jobs \ {j} |->
                     lovable_render_jobs[k]]
       ELSE UNCHANGED <<fs, lovable_render_jobs>>
    /\ Goto(j, "done")
    /\ UNCHANGED <<response, pure_call, env_key, req, calls>>

\* faulty variant of Finally: the working directory is removed whatever the
\* job's status
FinallyAlways(j) ==
    /\ At(j, "finally")
    /\ IF thread[j].render_dir # None
       THEN fs' = RmTree(thread[j].render_dir)
       ELSE UNCHANGED fs
    /\ Goto(j, "done")
    /\ UNCHANGED <<response, pure_call, env_key, lovable_render_jobs, req, calls>>

Finally(j) ==
    /\ At(j, "finally")
    /\ IF lovable_render_jobs[j].status = "completed"
          /\ thread[j].render_dir # None
       THEN fs' = RmTree(thread[j].render_dir)
       ELSE UNCHANGED fs
    /\ Goto(j, "done")
    /\ UNCHANGED <<response, pure_call, env_key, lovable_render_jobs, req, calls>>

-----------------------------------------------------------------------------
(* serve_video *)

\* faulty variant of ServeVideo: the two path components are swapped
ServeVideoSwapped(project_id, render_id) ==
    IF BackupPath(render_id, project_id) \in DOMAIN fs
    THEN fs[BackupPath(render_id, project_id)]
    ELSE "404"

\* the file sent for /api/video/<project_id>/<render_id>, or "404"
ServeVideo(project_id, render_id) ==
    IF BackupPath(project_id, render_id) \in DOMAIN fs
    THEN fs[BackupPath(project_id, render_id)]
    ELSE "404"

-----------------------------------------------------------------------------
(* Specifications *)

\* one step of the do_render thread of job j
ThreadStep(j) ==
    \/ StartRendering(j)
    \/ MsgPreparing(j)
    \/ MsgDownloadingAudio(j)
    \/ DownloadAudio(j)
    \/ MsgDownloadingMedia(j)
    \/ SceneDurationError(j)
    \/ DownloadScene(j)
    \/ SkipScene(j)
    \/ SceneProgress(j)
    \/ NoValidScenes(j)
    \/ MsgRenderingSegments(j)
    \/ RenderSegment(j)
    \/ SegmentProgressWrite(j)
    \/ SegmentMessage(j)
    \/ MsgAddingTransitions(j)
    \/ CopySingleSegment(j)
    \/ Xfade(j)
    \/ ConcatFallback(j)
    \/ Progress75(j)
    \/ MsgAddingAudio(j)
    \/ MergeAudio(j)
    \/ Progress82(j)
    \/ MsgAddingSubtitles(j)
    \/ GenerateAss(j)
    \/ BurnSubtitles(j)
    \/ Progress90(j)
    \/ BackupCopy(j)
    \/ SetLocalPath(j)
    \/ MsgUploading(j)
    \/ Upload(j)
    \/ SetPublicUrl(j)
    \/ SetVpsUrlAfterRejection(j)
    \/ SetUploadError(j)
    \/ SetVpsUrlNoCredentials(j)
    \/ SetCompleted(j)
    \/ SetProgress100(j)
    \/ MsgRenderComplete(j)
    \/ ExceptStatus(j)
    \/ ExceptError(j)
    \/ ExceptMessage(j)
    \/ UpdateRenderInSupabase(j)
    \/ Finally(j)

Next ==
    \/ \E j \in JobIds, data \in Requests : Submit(j, data)
    \/ \E j \in JobIds : ThreadStep(j)

Spec == Init /\ [][Next]_vars

\* A started thread is scheduled until it returns, and every external call
\* returns or times out: each enabled step of do_render is eventually taken.
FairSpec == Spec /\ \A j \in JobIds : WF_vars(ThreadStep(j))

\* the ids a caller may poll: the job ids and one that no submission returns
PollIds == JobIds \cup {"j0"}

\* The two routes and the thread: submissions of every kind, polls at any
\* moment.
ApiNext ==
    \/ \E j \in JobIds, h \in AuthHeaders, body \in ApiBodies :
           lovable_render(j, h, body)
    \/ \E id \in PollIds, h \in AuthHeaders : lovable_render_status(id, h)
    \/ \E j \in JobIds : ThreadStep(j)

SpecApi == Init /\ [][ApiNext]_vars

\* Two jobs at once: each submission starts a thread of its own, and the
\* steps of the two threads interleave freely.
ConcJobIds == {"j1", "j2"}

ConcRequests(j) ==
    IF j = "j1" THEN ApiRequests
    ELSE {r \in ApiRequests : /\ Len(r.scenes) = 1
                               /\ r.scenes[1].image_url # None
                               /\ r.scenes[1].video_url = None
                               /\ r.scenes[1].duration = DurMissing}

ConcNext ==
    \/ \E j \in ConcJobIds : \E data \in ConcRequests(j) : Submit(j, data)
    \/ \E j \in ConcJobIds : ThreadStep(j)

SpecConc == Init /\ [][ConcNext]_vars

\* The offset loop of the cross-fade filter on its own: scene_files of two
\* and more entries, with durations below, at and above one second.
DurationInputs == {30, 400, 500, 600}

XfadeInputs ==
    UNION { [1..n -> {[duration |-> d] : d \in DurationInputs}] :
            n \in 2..MaxSegments }

InitXfade ==
    /\ env_key = None
    /\ lovable_render_jobs = << >>
    /\ req = << >>
    /\ thread = << >>
    /\ fs = << >>
    /\ calls = << >>
    /\ response = NoResponse
    /\ pure_call \in {[fn |-> "xfade_offsets", input |-> sf, output |-> << >>,
                       returned |-> FALSE] : sf \in XfadeInputs}

BuildXfadeOffsets ==
    /\ pure_call.fn = "xfade_offsets"
    /\ ~pure_call.returned
    /\ pure_call' = [pure_call EXCEPT !.output = XfadeOffsets(pure_call.input),
                                      !.returned = TRUE]
    /\ UNCHANGED <<env_key, lovable_render_jobs, req, thread, fs, calls,
                   response>>

SpecXfade == InitXfade /\ [][BuildXfadeOffsets]_vars

\* The cross-fade filter graph on its own.  A pad label is "[k:v]", the video
\* of input k, or "[vk]", the output of a transition.
InputPad(k) == [pad |-> "input", n |-> k]
LinkPad(k) == [pad |-> "link", n |-> k]

\* faulty variant of filter_parts: a later transition takes raw segment i, not
\* the output of the transition before it
filter_parts_unchained(scene_files) ==
    [k \in 1..(Len(scene_files) - 1) |->
        LET i == k - 1 IN
        [left |-> InputPad(i), right |-> InputPad(i + 1),
         out |-> LinkPad(i + 1)]]

\* the xfade entries of filter_parts, for i in range(len(scene_files) - 1)
filter_parts(scene_files) ==
    [k \in 1..(Len(scene_files) - 1) |->
        LET i == k - 1 IN
        IF i = 0
        THEN [left |-> InputPad(0), right |-> InputPad(1),
              out |-> LinkPad(i + 1)]
        ELSE [left |-> LinkPad(i), right |-> InputPad(i + 1),
              out |-> LinkPad(i + 1)]]

\* f"[v{len(scene_files)-1}]"
final_label(scene_files) == LinkPad(Len(scene_files) - 1)

InitXfadeChain ==
    /\ env_key = None
    /\ lovable_render_jobs = << >>
    /\ req = << >>
    /\ thread = << >>
    /\ fs = << >>
    /\ calls = << >>
    /\ response = NoResponse
    /\ pure_call \in {[fn |-> "xfade_filter", input |-> sf, output |-> << >>,
                       returned |-> FALSE] : sf \in XfadeInputs}

\* the `-i` inputs (one per segment), filter_parts and the mapped label
BuildXfadeFilter ==
    /\ pure_call.fn = "xfade_filter"
    /\ ~pure_call.returned
    /\ pure_call' =
         [pure_call EXCEPT
            !.output = [inputs |-> Len(pure_call.input),
                        filter_parts |-> filter_parts(pure_call.input),
                        final_label |-> final_label(pure_call.input)],
            !.returned = TRUE]
    /\ UNCHANGED <<env_key, lovable_render_jobs, req, thread, fs, calls,
                   response>>

SpecXfadeChain == InitXfadeChain /\ [][BuildXfadeFilter]_vars

\* The error an encoder failure leaves in the job: the exception text of the
\* raise sites of do_render, kept as its parts (the text before the
\* diagnostic output, the segment index and return code where the text holds
\* them, and the characters of stderr that follow).
MaxStderr == 3

stderr_tail_chars == 2000

\* faulty variant of StrTail: the first n characters, s[:n]
StrHead(s, n) == IF Len(s) <= n THEN s ELSE SubSeq(s, 1, n)

\* s[-n:]
StrTail(s, n) == IF Len(s) <= n THEN s ELSE SubSeq(s, Len(s) - n + 1, Len(s))

\* `raise Exception(f"...{stderr_text[-2000:]}")` after a non-zero exit, and
\* the texts raised after a timeout
EncoderError(c) ==
    CASE c.site = "segment" /\ c.timed_out ->
           [text |-> "FFmpeg segment {i} timed out after 300s",
            index |-> c.i, stderr |-> << >>]
      [] c.site = "segment" /\ ~c.timed_out ->
           [text |-> "FFmpeg segment {i} failed (rc={rc}): ",
            index |-> c.i, rc |-> c.rc,
            stderr |-> StrTail(c.stderr_text, stderr_tail_chars)]
      [] c.site = "xfade" ->
           [text |-> "FFmpeg xfade timed out after 900s", stderr |-> << >>]
      [] c.site = "concat" /\ c.timed_out ->
           [text |-> "FFmpeg timed out after 600s", stderr |-> << >>]
      [] c.site = "concat" /\ ~c.timed_out ->
           [text |-> "FFmpeg concat fallback failed: ",
            stderr |-> StrTail(c.stderr_text, stderr_tail_chars)]
      [] c.site = "merge" /\ c.timed_out ->
           [text |-> "FFmpeg audio merge timed out after 600s",
            stderr |-> << >>]
      [] c.site = "merge" /\ ~c.timed_out ->
           [text |-> "FFmpeg audio merge failed (rc={rc}): ", rc |-> c.rc,
            stderr |-> StrTail(c.stderr_text, stderr_tail_chars)]

\* a diagnostic output of n characters, each character standing for its
\* position in the output
StderrText(n) == [k \in 1..n |-> k]

\* lengths around zero and around the number of characters kept
StderrLengths ==
    (0..MaxStderr) \cup
    {stderr_tail_chars - 1, stderr_tail_chars, stderr_tail_chars + 1,
     stderr_tail_chars + MaxStderr}

EncoderFailures ==
    {[site |-> s, i |-> i, rc |-> rc, timed_out |-> FALSE,
      stderr_text |-> StderrText(n)] :
        s \in {"segment", "concat", "merge"}, i \in 0..(MaxSegments - 1),
        rc \in {1, 255}, n \in StderrLengths}
    \cup
    {[site |-> s, i |-> i, rc |-> 0, timed_out |-> TRUE,
      stderr_text |-> << >>] :
        s \in {"segment", "xfade", "concat", "merge"},
        i \in 0..(MaxSegments - 1)}

InitError ==
    /\ env_key = None
    /\ lovable_render_jobs = << >>
    /\ req = << >>
    /\ thread = << >>
    /\ fs = << >>
    /\ calls = << >>
    /\ response = NoResponse
    /\ pure_call \in {[fn |-> "encoder_error", input |-> c, output |-> << >>,
                       returned |-> FALSE] : c \in EncoderFailures}

\* the raise, and `lovable_render_jobs[job_id]['error'] = str(e)`
StoreEncoderError ==
    /\ pure_call.fn = "encoder_error"
    /\ ~pure_call.returned
    /\ pure_call' = [pure_call EXCEPT !.output = EncoderError(pure_call.input),
                                      !.returned = TRUE]
    /\ UNCHANGED <<env_key, lovable_render_jobs, req, thread, fs, calls,
                   response>>

SpecError == InitError /\ [][StoreEncoderError]_vars

\* group_words on its own, one loop iteration per step.  The inputs are word
\* lists with contiguous timestamps: an optional run of five short words,
\* then up to MaxTail words drawn from WordOptions.
MaxTail == 3

Repeat(c, n) == [i \in 1..n |-> c]

\* text and length (centiseconds) of a word: short, sentence end, long,
\* slowly spoken, and blank
WordOptions ==
    {[word |-> <<"o", "k">>, dur |-> 40],
     [word |-> <<"e", "n", "d", ".">>, dur |-> 40],
     [word |-> Repeat("x", 20), dur |-> 40],
     [word |-> <<" ", "s", "o">>, dur |-> 200],
     [word |-> <<" ">>, dur |-> 40]}

\* the words of the list, each starting where the one before it ended
RECURSIVE Timed(_, _)
Timed(ws, t) ==
    IF ws = << >> THEN << >>
    ELSE <<[word |-> Head(ws).word, start |-> t, end |-> t + Head(ws).dur]>>
         \o Timed(Tail(ws), t + Head(ws).dur)

\* [Hello, world, this, is, a, test, sentence.] at 0.4 s per word
ExampleWords ==
    Timed(<<[word |-> <<"H", "e", "l", "l", "o">>, dur |-> 40],
            [word |-> <<"w", "o", "r", "l", "d">>, dur |-> 40],
            [word |-> <<"t", "h", "i", "s">>, dur |-> 40],
            [word |-> <<"i", "s">>, dur |-> 40],
            [word |-> <<"a">>, dur |-> 40],
            [word |-> <<"t", "e", "s", "t">>, dur |-> 40],
            [word |-> <<"s", "e", "n", "t", "e", "n", "c", "e", ".">>,
             dur |-> 40]>>, 0)

GroupInputs ==
    {ExampleWords} \cup
    {Timed(p \o t, 0) :
       p \in {<< >>, Repeat([word |-> <<"o", "k">>, dur |-> 40], 5)},
       t \in UNION {[1..n -> WordOptions] : n \in 0..MaxTail}}

InitGroup ==
    /\ env_key = None
    /\ lovable_render_jobs = << >>
    /\ req = << >>
    /\ thread = << >>
    /\ fs = << >>
    /\ calls = << >>
    /\ response = NoResponse
    /\ pure_call \in {[fn |-> "group_words", input |-> ws,
                       output |-> [st |-> GroupInit, k |-> 0],
                       returned |-> FALSE] : ws \in GroupInputs}

\* `for w in words:` one iteration
GroupWord ==
    /\ pure_call.fn = "group_words"
    /\ ~pure_call.returned
    /\ pure_call.output.k < Len(pure_call.input)
    /\ pure_call' =
         [pure_call EXCEPT
            !.output = [st |-> GroupStep(@.st, pure_call.input[@.k + 1]),
                        k  |-> @.k + 1]]
    /\ UNCHANGED <<env_key, lovable_render_jobs, req, thread, fs, calls,
                   response>>

\* the statements after the loop, and `return subtitles`
GroupReturn ==
    /\ pure_call.fn = "group_words"
    /\ ~pure_call.returned
    /\ pure_call.output.k = Len(pure_call.input)
    /\ pure_call' = [pure_call EXCEPT !.output.st = GroupFinish(@),
                                      !.returned = TRUE]
    /\ UNCHANGED <<env_key, lovable_render_jobs, req, thread, fs, calls,
                   response>>

GroupNext == GroupWord \/ GroupReturn

SpecGroup == InitGroup /\ [][GroupNext]_vars

\* The encoder invocations of the three pipeline variants, from the first
\* segment render to the last invocation, each with the timeout it is given
\* and what its caller does with a non-zero exit and with an expired timeout.
\* Each variant runs one job of `segments` scenes (with timing data), its
\* assets already fetched and its status 'rendering'.
Variants ==
    {"backend_server", "backend_server_complete", "lovable_render_endpoint"}

Timeout(secs) == [bounded |-> TRUE, secs |-> secs]
NoTimeout == [bounded |-> FALSE, secs |-> 0]

\* ok_skip: the number of following invocations left out after a success
Site(op, timeout, nonzero, timed_out, ok_skip) ==
    [op |-> op, timeout |-> timeout, nonzero |-> nonzero,
     timed_out |-> timed_out, ok_skip |-> ok_skip]

\* backend_server.py, do_render: communicate(timeout=...) at every site
SitesBackendServer(n) ==
    Repeat(Site("ffmpeg_segment", Timeout(300), "raise", "raise", 0), n)
    \o (IF n = 1 THEN << >>
        ELSE <<Site("ffmpeg_xfade", Timeout(900), "continue", "raise", 1),
               Site("ffmpeg_concat", Timeout(600), "raise", "raise", 0)>>)
    \o <<Site("ffmpeg_merge", Timeout(600), "raise", "raise", 0),
         Site("ffmpeg_subs", Timeout(600), "continue", "continue", 0)>>

\* backend_server_complete.py, do_render: subprocess.run without timeout
SitesBackendServerComplete(n) ==
    Repeat(Site("ffmpeg_segment", NoTimeout, "raise", "raise", 0), n)
    \o <<Site("ffmpeg_concat", NoTimeout, "raise", "raise", 0),
         Site("ffmpeg_merge", NoTimeout, "raise", "raise", 0)>>

\* lovable_render_endpoint.py, render_video_with_ffmpeg and burn_subtitles:
\* subprocess.run(..., timeout=600)
SitesLovableRenderEndpoint(n) ==
    Repeat(Site("ffmpeg_segment", Timeout(600), "raise", "raise", 0), n)
    \o <<Site("ffmpeg_concat", Timeout(600), "raise", "raise", 0),
         Site("ffmpeg_merge", Timeout(600), "raise", "raise", 0),
         Site("ffmpeg_subs", Timeout(600), "raise", "raise", 0)>>

Sites(v) ==
    CASE v = "backend_server" -> SitesBackendServer(req[v].segments)
      [] v = "backend_server_complete" ->
           SitesBackendServerComplete(req[v].segments)
      [] v = "lovable_render_endpoint" ->
           SitesLovableRenderEndpoint(req[v].segments)

\* what the encoder process does: exits with 0, exits with an error, or
\* never exits
EncoderBehaviours == {"ok", "nonzero", "never_exits"}

\* what the caller gets: a process that never exits ends in TimeoutExpired
\* where a timeout is given, and keeps the caller waiting where none is
Returned(site, b) ==
    IF b # "never_exits" THEN b
    ELSE IF site.timeout.bounded THEN "timeout" ELSE "blocked"

InitEncoders ==
    /\ env_key = None
    /\ fs = << >>
    /\ response = NoResponse
    /\ pure_call = NoPureCall
    /\ \E n \in 1..MaxSegments : req = [v \in Variants |-> [segments |-> n]]
    /\ lovable_render_jobs = [v \in Variants |-> [status |-> "rendering"]]
    /\ thread = [v \in Variants |-> [pc |-> "run", k |-> 1]]
    /\ calls = [v \in Variants |-> << >>]

RunEncoder(v) ==
    /\ thread[v].pc = "run"
    /\ thread[v].k <= Len(Sites(v))
    /\ \E b \in EncoderBehaviours :
        LET site == Sites(v)[thread[v].k]
            res == Returned(site, b)
            handling == IF res = "nonzero" THEN site.nonzero
                        ELSE site.timed_out
        IN /\ Call(v, site.op, v, << >>, res)
           /\ thread' =
                [thread EXCEPT ![v] =
                   IF res = "blocked" THEN [@ EXCEPT !.pc = "blocked"]
                   ELSE IF res = "ok"
                   THEN [@ EXCEPT !.k = @ + 1 + site.ok_skip]
                   ELSE IF handling = "raise" THEN [@ EXCEPT !.pc = "except"]
                   ELSE [@ EXCEPT !.k = @ + 1]]
    /\ UNCHANGED <<response, pure_call, env_key, lovable_render_jobs, req, fs>>

\* the except clause of the variant
JobFailed(v) ==
    /\ thread[v].pc = "except"
    /\ SetField(v, "status", "failed")
    /\ thread' = [thread EXCEPT ![v].pc = "done"]
    /\ UNCHANGED <<response, pure_call, env_key, req, fs, calls>>

\* past the last invocation: the result is published
JobCompleted(v) ==
    /\ thread[v].pc = "run"
    /\ thread[v].k > Len(Sites(v))
    /\ SetField(v, "status", "completed")
    /\ thread' = [thread EXCEPT ![v].pc = "done"]
    /\ UNCHANGED <<response, pure_call, env_key, req, fs, calls>>

EncodersNext ==
    \E v \in Variants : RunEncoder(v) \/ JobFailed(v) \/ JobCompleted(v)

SpecEncoders == InitEncoders /\ [][EncodersNext]_vars

\* The encoder command of one segment on its own, in backend_server.py and
\* in backend_server_complete.py: whether the input is looped, the length
\* given to -t, and the -vf filter (how the picture is fitted to the frame,
\* and the zoompan parameters: zoom at frame 0 and its change per frame, in
\* thousandths, and the number of frames).
MaxIndex == 4

SegmentCmd(loop, t, scale, fit, zoompan, z0, dz, d) ==
    [loop |-> loop, t |-> t, scale |-> scale, fit |-> fit,
     zoompan |-> zoompan, z0 |-> z0, dz |-> dz, d |-> d]

\* backend_server.py: the two branches of `if sf.get('is_video')`
segment_cmd(i, sf) ==
    IF sf.is_video
    THEN SegmentCmd(FALSE, SegmentDuration(sf), "decrease", "pad",
                    FALSE, 0, 0, 0)
    ELSE SegmentCmd(TRUE, SegmentDuration(sf), "decrease", "pad",
                    FALSE, 0, 0, 0)

\* backend_server_complete.py: z='1+0.001*in' for even i, z='1.15-0.001*in'
\* for odd i, d=int(duration*30)
segment_cmd_complete(i, sf) ==
    IF i % 2 = 0
    THEN SegmentCmd(TRUE, SegmentDuration(sf), "increase", "crop",
                    TRUE, 1000, 1, (SegmentDuration(sf) * 30) \div 100)
    ELSE SegmentCmd(TRUE, SegmentDuration(sf), "increase", "crop",
                    TRUE, 1150, -1, (SegmentDuration(sf) * 30) \div 100)

\* scene_files entries at the indices 0..MaxIndex; backend_server_complete.py
\* has still images only
SegmentCmdInputs ==
    {[variant |-> "backend_server", i |-> i,
      sf |-> [duration |-> d, is_video |-> v]] :
        i \in 0..MaxIndex, d \in DurationInputs, v \in BOOLEAN}
    \cup
    {[variant |-> "backend_server_complete", i |-> i,
      sf |-> [duration |-> d, is_video |-> FALSE]] :
        i \in 0..MaxIndex, d \in DurationInputs}

InitSegmentCmd ==
    /\ env_key = None
    /\ lovable_render_jobs = << >>
    /\ req = << >>
    /\ thread = << >>
    /\ fs = << >>
    /\ calls = << >>
    /\ response = NoResponse
    /\ pure_call \in {[fn |-> "segment_cmd", input |-> c, output |-> << >>,
                       returned |-> FALSE] : c \in SegmentCmdInputs}

BuildSegmentCmd ==
    /\ pure_call.fn = "segment_cmd"
    /\ ~pure_call.returned
    /\ pure_call' =
         [pure_call EXCEPT
            !.output = IF pure_call.input.variant = "backend_server"
                       THEN segment_cmd(pure_call.input.i, pure_call.input.sf)
                       ELSE segment_cmd_complete(pure_call.input.i,
                                                 pure_call.input.sf),
            !.returned = TRUE]
    /\ UNCHANGED <<env_key, lovable_render_jobs, req, thread, fs, calls,
                   response>>

SpecSegmentCmd == InitSegmentCmd /\ [][BuildSegmentCmd]_vars

\* The two timecode formatters on their own.  Times are in milliseconds, so
\* that inputs between two centiseconds are covered; a timecode is kept as
\* the digits of its four fields, H:MM:SS.CC.
MaxHours == 1

RECURSIVE Digits(_)
\* the decimal digits of n
Digits(n) == IF n < 10 THEN <<n>> ELSE Append(Digits(n \div 10), n % 10)

\* f"{n:02d}"
Pad2(n) == IF n < 10 THEN <<0, n>> ELSE Digits(n)

Timecode(hours, minutes, secs, centis) ==
    [h |-> Digits(hours), mm |-> Pad2(minutes), ss |-> Pad2(secs),
     cc |-> Pad2(centis)]

\* binary floating point holds the fraction of a second exactly only for
\* these; any other whole number of centiseconds may lie just below it
ExactFraction(ms) == ms % 1000 \in {0, 250, 500, 750}

\* int((seconds % 1) * 100): the centiseconds, cut off; for an inexact
\* fraction that is a whole number of centiseconds the product may come out
\* just below it
CentisOutcomes(ms) ==
    LET c == (ms % 1000) \div 10 IN
    IF ms % 10 = 0 /\ ~ExactFraction(ms) THEN {c, c - 1} ELSE {c}

\* secs_to_ass_time(seconds) of backend_server.py: the timecodes it can return
secs_to_ass_time(ms) ==
    {Timecode(ms \div 3600000, (ms % 3600000) \div 60000,
              (ms % 60000) \div 1000, c) : c \in CentisOutcomes(ms)}

\* f"{x:05.2f}" rounds x to the nearest centisecond; a binary value that
\* stands for a half centisecond lies just below or just above it
RoundedCentis(ms) ==
    LET c == ms \div 10 IN
    IF ms % 10 < 5 THEN {c}
    ELSE IF ms % 10 > 5 THEN {c + 1}
    ELSE {c, c + 1}

\* the inline formatter of create_ass_subtitles in lovable_render_endpoint.py:
\* f"{int(t//3600)}:{int((t%3600)//60):02d}:{t%60:05.2f}"
inline_ass_time(ms) ==
    {Timecode(ms \div 3600000, (ms % 3600000) \div 60000,
              c \div 100, c % 100) : c \in RoundedCentis(ms % 60000)}

\* times at the start of an hour, in the last second of a minute and of an
\* hour, with fractions at, just below and just above a centisecond
TimeInputs ==
    {h * 3600000 + b + f :
        h \in 0..MaxHours, b \in {0, 59000, 3599000},
        f \in {0, 4, 5, 6, 290, 994, 995, 996, 999}}

InitTimecode ==
    /\ env_key = None
    /\ lovable_render_jobs = << >>
    /\ req = << >>
    /\ thread = << >>
    /\ fs = << >>
    /\ calls = << >>
    /\ response = NoResponse
    /\ pure_call \in {[fn |-> f, input |-> ms, output |-> << >>,
                       returned |-> FALSE] :
                         f \in {"secs_to_ass_time", "inline_ass_time"},
                         ms \in TimeInputs}

FormatSecsToAssTime ==
    /\ pure_call.fn = "secs_to_ass_time"
    /\ ~pure_call.returned
    /\ \E tc \in secs_to_ass_time(pure_call.input) :
          pure_call' = [pure_call EXCEPT !.output = tc, !.returned = TRUE]
    /\ UNCHANGED <<env_key, lovable_render_jobs, req, thread, fs, calls,
                   response>>

FormatInline ==
    /\ pure_call.fn = "inline_ass_time"
    /\ ~pure_call.returned
    /\ \E tc \in inline_ass_time(pure_call.input) :
          pure_call' = [pure_call EXCEPT !.output = tc, !.returned = TRUE]
    /\ UNCHANGED <<env_key, lovable_render_jobs, req, thread, fs, calls,
                   response>>

TimecodeNext == FormatSecsToAssTime \/ FormatInline

SpecTimecode == InitTimecode /\ [][TimecodeNext]_vars

\* lovable_render_endpoint.py: render_video_with_ffmpeg for one submitted job
\* (its registry, render_jobs, is kept in lovable_render_jobs), and the status
\* handler polling that job with the right key.  The downloads and the
\* encoder runs are one step each; every write of status, and every write
\* from the upload on, is a step of its own.  The handler reads the five
\* fields of the entry one after the other.
EpJob == "j1"

EpPoller == "poll"

EpQueued ==
    [status |-> "queued", progress |-> 0, message |-> "Job queued...",
     video_url |-> None, error |-> None]

InitEndpoint ==
    /\ env_key = "service_role"
    /\ fs = << >>
    /\ response = NoResponse
    /\ pure_call = NoPureCall
    /\ req = (EpJob :> [project_id |-> "p1", render_id |-> "r1",
                        supabase_url |-> "https://sb"])
    /\ lovable_render_jobs = (EpJob :> EpQueued)
    /\ thread = (EpJob :> [pc |-> "ep_downloading", exc |-> NoExc])
                @@ (EpPoller :> [pc |-> "idle", k |-> 0, body |-> << >>])
    /\ calls = (EpJob :> << >>)

\* render_jobs[job_id]['status'] = 'downloading'
EpDownloading ==
    /\ At(EpJob, "ep_downloading")
    /\ SetField(EpJob, "status", "downloading")
    /\ Goto(EpJob, "ep_msg_downloading")
    /\ UNCHANGED <<response, pure_call, env_key, req, fs, calls>>

\* render_jobs[job_id]['message'] = 'Downloading assets...'
EpMsgDownloading ==
    /\ At(EpJob, "ep_msg_downloading")
    /\ SetField(EpJob, "message", "Downloading assets...")
    /\ Goto(EpJob, "ep_fetch")
    /\ UNCHANGED <<response, pure_call, env_key, req, fs, calls>>

\* download_file for the audio and the scene images
EpFetch ==
    /\ At(EpJob, "ep_fetch")
    /\ \E res \in DownloadResults :
        /\ Call(EpJob, "download_file", "assets", << >>, res)
        /\ IF res = "ok" THEN Goto(EpJob, "ep_rendering")
           ELSE Raise(EpJob, "Exception", "requests: " \o res)
    /\ UNCHANGED <<response, pure_call, env_key, lovable_render_jobs, req, fs>>

\* render_jobs[job_id]['status'] = 'rendering'
EpRendering ==
    /\ At(EpJob, "ep_rendering")
    /\ SetField(EpJob, "status", "rendering")
    /\ Goto(EpJob, "ep_msg_rendering")
    /\ UNCHANGED <<response, pure_call, env_key, req, fs, calls>>

\* render_jobs[job_id]['message'] = 'Rendering video segments...'
EpMsgRendering ==
    /\ At(EpJob, "ep_msg_rendering")
    /\ SetField(EpJob, "message", "Rendering video segments...")
    /\ Goto(EpJob, "ep_encode")
    /\ UNCHANGED <<response, pure_call, env_key, req, fs, calls>>

\* the encoder runs: segments, concat, audio merge, subtitle burn
EpEncode ==
    /\ At(EpJob, "ep_encode")
    /\ \E res \in EncoderResults :
        /\ Call(EpJob, "ffmpeg", "final.mp4", << >>, res)
        /\ IF res = "ok" THEN Goto(EpJob, "ep_progress90")
           ELSE Raise(EpJob, "Exception", "FFmpeg: " \o res)
    /\ UNCHANGED <<response, pure_call, env_key, lovable_render_jobs, req, fs>>

EpProgress90 ==
    /\ At(EpJob, "ep_progress90")
    /\ SetField(EpJob, "progress", 90)
    /\ Goto(EpJob, "ep_msg_uploading")
    /\ UNCHANGED <<response, pure_call, env_key, req, fs, calls>>

\* render_jobs[job_id]['message'] = 'Uploading to storage...'
EpMsgUploading ==
    /\ At(EpJob, "ep_msg_uploading")
    /\ SetField(EpJob, "message", "Uploading to storage...")
    /\ Goto(EpJob, "ep_upload")
    /\ UNCHANGED <<response, pure_call, env_key, req, fs, calls>>

\* requests.post(upload_url, ...), then the check of the status code
EpUpload ==
    /\ At(EpJob, "ep_upload")
    /\ \E res \in UploadResults :
        /\ Call(EpJob, "post_upload", "renders", << >>, res)
        /\ IF res = "ok" THEN Goto(EpJob, "ep_completed")
           ELSE Raise(EpJob, "Exception", "Upload failed: " \o res)
    /\ UNCHANGED <<response, pure_call, env_key, lovable_render_jobs, req, fs>>

EpCompleted ==
    /\ At(EpJob, "ep_completed")
    /\ SetField(EpJob, "status", "completed")
    /\ Goto(EpJob, "ep_progress100")
    /\ UNCHANGED <<response, pure_call, env_key, req, fs, calls>>

EpProgress100 ==
    /\ At(EpJob, "ep_progress100")
    /\ SetField(EpJob, "progress", 100)
    /\ Goto(EpJob, "ep_message")
    /\ UNCHANGED <<response, pure_call, env_key, req, fs, calls>>

EpMessage ==
    /\ At(EpJob, "ep_message")
    /\ SetField(EpJob, "message", "Render complete!")
    /\ Goto(EpJob, "ep_video_url")
    /\ UNCHANGED <<response, pure_call, env_key, req, fs, calls>>

EpVideoUrl ==
    /\ At(EpJob, "ep_video_url")
    /\ SetField(EpJob, "video_url",
                PublicUrl(req[EpJob].supabase_url, req[EpJob].project_id,
                          req[EpJob].render_id))
    /\ Goto(EpJob, "done")
    /\ UNCHANGED <<response, pure_call, env_key, req, fs, calls>>

\* except Exception as e: the three writes
EpFailed ==
    /\ At(EpJob, "except")
    /\ SetField(EpJob, "status", "failed")
    /\ Goto(EpJob, "ep_error")
    /\ UNCHANGED <<response, pure_call, env_key, req, fs, calls>>

EpError ==
    /\ At(EpJob, "ep_error")
    /\ SetField(EpJob, "error", thread[EpJob].exc.msg)
    /\ Goto(EpJob, "ep_error_message")
    /\ UNCHANGED <<response, pure_call, env_key, req, fs, calls>>

EpErrorMessage ==
    /\ At(EpJob, "ep_error_message")
    /\ SetField(EpJob, "message", "Error: " \o thread[EpJob].exc.msg)
    /\ Goto(EpJob, "done")
    /\ UNCHANGED <<response, pure_call, env_key, req, fs, calls>>

\* the keys of the response, in the order the handler reads them
EpStatusFields == <<"status", "progress", "message", "video_url", "error">>

\* job = render_jobs.get(job_id)
EpPollGet ==
    /\ At(EpPoller, "idle")
    /\ thread' = [thread EXCEPT ![EpPoller] =
                    [pc |-> "read", k |-> 1, body |-> << >>]]
    /\ UNCHANGED <<response, pure_call, env_key, lovable_render_jobs, req, fs,
                   calls>>

\* job['status'], job['progress'], ...: one read of the live entry
EpPollRead ==
    /\ At(EpPoller, "read")
    /\ thread[EpPoller].k <= Len(EpStatusFields)
    /\ LET key == EpStatusFields[thread[EpPoller].k] IN
       thread' = [thread EXCEPT
                    ![EpPoller].k = @ + 1,
                    ![EpPoller].body =
                        (key :> lovable_render_jobs[EpJob][key]) @@ @]
    /\ UNCHANGED <<response, pure_call, env_key, lovable_render_jobs, req, fs,
                   calls>>

\* return jsonify({...})
EpPollRespond ==
    /\ At(EpPoller, "read")
    /\ thread[EpPoller].k > Len(EpStatusFields)
    /\ response' = Response("lovable_render_status", 200,
                            thread[EpPoller].body)
    /\ thread' = [thread EXCEPT ![EpPoller] =
                    [pc |-> "idle", k |-> 0, body |-> << >>]]
    /\ UNCHANGED <<pure_call, env_key, lovable_render_jobs, req, fs, calls>>

EndpointNext ==
    \/ EpDownloading \/ EpMsgDownloading \/ EpFetch \/ EpRendering
    \/ EpMsgRendering \/ EpEncode \/ EpProgress90 \/ EpMsgUploading \/ EpUpload \/ EpCompleted \/ EpProgress100 \/ EpMessage \/ EpVideoUrl
    \/ EpFailed \/ EpError \/ EpErrorMessage
    \/ EpPollGet \/ EpPollRead \/ EpPollRespond

SpecEndpoint == InitEndpoint /\ [][EndpointNext]_vars

-----------------------------------------------------------------------------
(* Properties *)

EncoderOps ==
    {"ffmpeg_segment", "ffmpeg_xfade", "ffmpeg_concat", "ffmpeg_merge",
     "ffmpeg_subs"}

HasCall(j, op) == \E k \in 1..Len(calls[j]) : calls[j][k].op = op

HasCallResult(j, op, res) ==
    \E k \in 1..Len(calls[j]) : calls[j][k].op = op /\ calls[j][k].result = res

Terminal(j) ==
    /\ j \in DOMAIN lovable_render_jobs
    /\ lovable_render_jobs[j].status \in {"completed", "failed"}

Resolvable(scene) == scene.video_url # None \/ scene.image_url # None

HasResolvableScene(j) ==
    \E k \in 1..Len(req[j].scenes) : Resolvable(req[j].scenes[k])

\* what the final video of job j holds: the merged video, or the subtitled one
\* once the burn-in has exited zero
ExpectedFinal(j) ==
    IF HasCallResult(j, "ffmpeg_subs", "ok")
    THEN j \o ":merged+subs"
    ELSE j \o ":merged"

BackupOf(j) == BackupPath(req[j].project_id, req[j].render_id)

\* C1: when every enabled step of do_render is eventually taken (every
\* external call returns or times out), every submitted job with at least one
\* resolvable scene eventually has status completed or failed.
C1_EventuallyTerminal ==
    \A j \in JobIds :
        (j \in DOMAIN req /\ HasResolvableScene(j)) ~> Terminal(j)

C1_Witness ==
    \E j \in DOMAIN thread :
        /\ HasResolvableScene(j)
        /\ thread[j].pc = "done"
        /\ lovable_render_jobs[j].status = "completed"

\* C2 (as claimed): in every observable state of a job, progress is 100
\* exactly when status is completed.
C2_HundredIffCompleted ==
    \A j \in DOMAIN lovable_render_jobs :
        (lovable_render_jobs[j].progress = 100)
            <=> (lovable_render_jobs[j].status = "completed")

\* C3: every step leaves each job's progress an integer in 0..100 that is not
\* below the value stored before; a new entry starts in that range.
C3_ProgressMonotone ==
    [][\A j \in DOMAIN lovable_render_jobs' :
          /\ lovable_render_jobs'[j].progress \in 0..100
          /\ j \in DOMAIN lovable_render_jobs =>
               lovable_render_jobs'[j].progress
                   >= lovable_render_jobs[j].progress]_vars

C3_Witness ==
    \E j \in DOMAIN thread :
        /\ ~Resolvable(req[j].scenes[1])
        /\ HasCall(j, "ffmpeg_segment")
        /\ lovable_render_jobs[j].progress = 100

\* C4: a status is one of queued, rendering, completed, failed; an entry is
\* created queued; a step changes a status only from queued to rendering or
\* from rendering to completed or failed.
C4_StatusTransitions ==
    [][\A j \in DOMAIN lovable_render_jobs' :
          LET new == lovable_render_jobs'[j].status IN
          /\ new \in {"queued", "rendering", "completed", "failed"}
          /\ IF j \in DOMAIN lovable_render_jobs
             THEN LET old == lovable_render_jobs[j].status IN
                  \/ new = old
                  \/ <<old, new>> \in {<<"queued", "rendering">>,
                                       <<"rendering", "completed">>,
                                       <<"rendering", "failed">>}
             ELSE new = "queued"]_vars

C4_Witness ==
    \E j \in DOMAIN thread :
        /\ thread[j].pc = "done"
        /\ lovable_render_jobs[j].status = "completed"
        /\ HasCall(j, "patch_renders")

\* C5 (as claimed): every failed cross-fade invocation, by non-zero exit or by
\* timeout, is followed by the concat fallback and not by the job's failure.
C5_XfadeFailureFallsBack ==
    \A j \in DOMAIN calls :
        \A k \in 1..Len(calls[j]) :
            (calls[j][k].op = "ffmpeg_xfade" /\ calls[j][k].result # "ok") =>
                IF k = Len(calls[j])
                THEN thread[j].pc = "concat"
                ELSE calls[j][k + 1].op = "ffmpeg_concat"

\* C6 (as claimed): once the audio merge has succeeded nothing in the subtitle
\* stage makes the job fail (the upload apart), and the backed-up artifact is
\* the merged video unless the burn-in exited zero.
C6_SubtitleFailureNotFatal ==
    \A j \in DOMAIN thread :
        /\ (HasCallResult(j, "ffmpeg_merge", "ok")
              /\ ~HasCallResult(j, "post_upload", "error")) =>
               /\ thread[j].pc # "except"
               /\ lovable_render_jobs[j].status # "failed"
        /\ BackupOf(j) \in DOMAIN fs => fs[BackupOf(j)] = ExpectedFinal(j)

\* C7 (as claimed): once local_path is recorded the job does not become
\* failed, and it ends completed with a video_url.
C7_BackupImpliesCompleted ==
    \A j \in DOMAIN thread :
        "local_path" \in DOMAIN lovable_render_jobs[j] =>
            /\ lovable_render_jobs[j].status # "failed"
            /\ thread[j].pc = "done" =>
                 /\ lovable_render_jobs[j].status = "completed"
                 /\ lovable_render_jobs[j].video_url # None

\* C8: a job none of whose scenes has an image or video reference never
\* invokes the encoder and never completes; when its thread has ended its
\* status is failed.
C8_NoScenesNoEncoder ==
    \A j \in DOMAIN thread :
        ~HasResolvableScene(j) =>
            /\ \A k \in 1..Len(calls[j]) : calls[j][k].op \notin EncoderOps
            /\ lovable_render_jobs[j].status # "completed"
            /\ thread[j].pc = "done" => lovable_render_jobs[j].status = "failed"

C8_Witness ==
    \E j \in DOMAIN thread :
        /\ ~HasResolvableScene(j)
        /\ thread[j].pc = "done"
        /\ lovable_render_jobs[j].error
             = "No valid scenes with image_url or video_url"

\* C9: at the upload decision, with or without credentials, and whenever an
\* upload request has been issued, the backup file exists and holds the final
\* video.
C9_BackupBeforeUpload ==
    \A j \in DOMAIN thread :
        (At(j, "upload") \/ HasCall(j, "post_upload")) =>
            /\ BackupOf(j) \in DOMAIN fs
            /\ fs[BackupOf(j)] = ExpectedFinal(j)

C9_Witness ==
    \E j \in DOMAIN thread :
        /\ HasCall(j, "post_upload")
        /\ BackupOf(j) \in DOMAIN fs

\* C10: a job whose upload was skipped or answered with a non-2xx status ends
\* completed with the local-serving URL of its (project_id, render_id), and
\* serve_video sends for that URL the job's backup copy; the public URL is
\* stored only after a successful upload response.
C10_LocalUrlServesBackup ==
    \A j \in DOMAIN thread :
        LET job == lovable_render_jobs[j]
            local == VpsVideoUrl(req[j].project_id, req[j].render_id)
            skipped == "local_path" \in DOMAIN job /\ ~HasCredentials(req[j])
            rejected == HasCallResult(j, "post_upload", "rejected")
        IN /\ job.video_url \notin {None, local} =>
                /\ HasCallResult(j, "post_upload", "ok")
                /\ job.video_url = PublicUrl(req[j].supabase_url,
                                             req[j].project_id,
                                             req[j].render_id)
           /\ (thread[j].pc = "done" /\ (skipped \/ rejected)) =>
                /\ job.status = "completed"
                /\ job.video_url = local
                /\ ServeVideo(req[j].project_id, req[j].render_id)
                     = ExpectedFinal(j)

C10_Witness ==
    \E j \in DOMAIN thread :
        /\ thread[j].pc = "done"
        /\ HasCallResult(j, "post_upload", "rejected")
        /\ lovable_render_jobs[j].video_url
             = VpsVideoUrl(req[j].project_id, req[j].render_id)


-----------------------------------------------------------------------------
(* Properties of the failure paths *)

\* the calls of the pipeline proper: everything but the PATCH that reports
\* the job's outcome to the renders table
PipelineOps ==
    EncoderOps \cup {"get_audio", "get_video", "get_image", "post_upload"}

\* call k of job j is the job's last pipeline call: only the outcome report
\* may follow it
LastPipelineCall(j, k) ==
    \A m \in (k + 1)..Len(calls[j]) : calls[j][m].op \notin PipelineOps

\* the job whose step k failed made no backup copy and is failed, with its
\* error stored, once its thread has returned
FailedAt(j, k) ==
    /\ LastPipelineCall(j, k)
    /\ BackupOf(j) \notin DOMAIN fs
    /\ "local_path" \notin DOMAIN lovable_render_jobs[j]
    /\ lovable_render_jobs[j].status # "completed"
    /\ lovable_render_jobs[j].video_url = None
    /\ thread[j].pc = "done" =>
          /\ lovable_render_jobs[j].status = "failed"
          /\ lovable_render_jobs[j].error # None

\* C11: when the concat fallback fails, by non-zero exit or by timeout, the
\* job ends failed with its error set, and no assembly attempt, audio merge,
\* subtitle burn, backup copy or upload follows the failed concat run.
C11_ConcatFailureFailsJob ==
    \A j \in DOMAIN calls :
        \A k \in 1..Len(calls[j]) :
            (calls[j][k].op = "ffmpeg_concat" /\ calls[j][k].result # "ok")
                => FailedAt(j, k)

C11_Witness ==
    \E j \in DOMAIN thread :
        /\ thread[j].pc = "done"
        /\ HasCallResult(j, "ffmpeg_concat", "timeout")
        /\ lovable_render_jobs[j].status = "failed"

\* the steps whose failure is fatal whatever the job: the audio download, a
\* scene download, a segment render, the audio merge
FatalOps == {"get_audio", "get_video", "get_image", "ffmpeg_segment",
             "ffmpeg_merge"}

\* C12: when the audio download, a scene download, a segment render or the
\* audio merge fails, the job ends failed, and no download, encoder
\* invocation, backup copy or upload is performed after the failing step.
C12_FatalStepFailsJob ==
    \A j \in DOMAIN calls :
        \A k \in 1..Len(calls[j]) :
            (calls[j][k].op \in FatalOps /\ calls[j][k].result # "ok")
                => FailedAt(j, k)

C12_Witness ==
    \E j \in DOMAIN thread :
        /\ thread[j].pc = "done"
        /\ lovable_render_jobs[j].status = "failed"
        /\ HasCallResult(j, "ffmpeg_merge", "nonzero")

-----------------------------------------------------------------------------
(* Properties of the registry entry *)

\* error is set only in a failed entry, local_path only once the backup file
\* exists
ErrorAndLocalPathGuarded(j) ==
    /\ lovable_render_jobs[j].error # None =>
           lovable_render_jobs[j].status = "failed"
    /\ "local_path" \in DOMAIN lovable_render_jobs[j] =>
           BackupOf(j) \in DOMAIN fs

\* C13 (as claimed): in every state video_url is non-null only if status is
\* completed, error is non-null only if status is failed, and local_path is
\* present only after the backup copy was written.
C13_FieldsOnlyInTheirStatus ==
    \A j \in DOMAIN lovable_render_jobs :
        /\ lovable_render_jobs[j].video_url # None =>
               lovable_render_jobs[j].status = "completed"
        /\ ErrorAndLocalPathGuarded(j)

\* the publish step has stored video_url and the write of status completed is
\* the next write of status
CompletedPending(j) ==
    /\ lovable_render_jobs[j].status = "rendering"
    /\ thread[j].pc \in {"set_upload_error", "set_completed"}

\* C13 (amended): video_url is non-null only if status is completed or the job
\* is rendering between its video_url write and the write of status completed
\* that follows it, and never in a failed job; error is non-null only if
\* status is failed; local_path is present only after the backup copy was
\* written.
C13_FieldsOnlyInTheirStatusAmended ==
    \A j \in DOMAIN lovable_render_jobs :
        /\ lovable_render_jobs[j].video_url # None =>
               \/ lovable_render_jobs[j].status = "completed"
               \/ CompletedPending(j)
        /\ ErrorAndLocalPathGuarded(j)

C13_Witness ==
    \E j \in DOMAIN lovable_render_jobs :
        /\ lovable_render_jobs[j].video_url # None
        /\ CompletedPending(j)
        /\ "local_path" \in DOMAIN lovable_render_jobs[j]

-----------------------------------------------------------------------------
(* Properties of the assembly *)

\* the job has fetched one scene and rendered its one segment
OneSegmentJob(j) ==
    /\ Len(thread[j].scene_files) = 1
    /\ Len(thread[j].segment_files) = 1

\* C17: a job with exactly one rendered segment makes neither a cross-fade
\* nor a concat invocation, and its assembled video is a copy of the segment.
C17_SingleSegmentCopied ==
    \A j \in DOMAIN thread :
        OneSegmentJob(j) =>
            /\ ~HasCall(j, "ffmpeg_xfade")
            /\ ~HasCall(j, "ffmpeg_concat")
            /\ thread[j].pc \in {"progress75", "msg_adding_audio", "merge"} =>
                   /\ SilentVideo(j) \in DOMAIN fs
                   /\ fs[SilentVideo(j)] = fs[thread[j].segment_files[1]]

C17_Witness ==
    \E j \in DOMAIN thread :
        /\ OneSegmentJob(j)
        /\ HasCallResult(j, "ffmpeg_merge", "ok")
        /\ lovable_render_jobs[j].status = "completed"

-----------------------------------------------------------------------------
(* Order of the pipeline *)

NoCall == [op |-> "none", target |-> "", args |-> << >>, result |-> "ok"]

PrevCall(j) ==
    IF calls[j] = << >> THEN NoCall ELSE calls[j][Len(calls[j])]

\* how many of the first i scenes of job j have a media reference
ResolvableBefore(j, i) ==
    Cardinality({k \in 1..i : Resolvable(req[j].scenes[k])})

\* the step appends call c to the calls of job j: c is the next action of the
\* pipeline, and the action before it has finished as c requires
CallInOrder(j, c) ==
    LET prev == PrevCall(j)
        t == thread[j]
        scenes == req[j].scenes
    IN CASE c.op = "get_audio" -> calls[j] = << >>
         [] c.op \in {"get_video", "get_image"} ->
              /\ prev.op \in {"get_audio", "get_video", "get_image"}
              /\ prev.result = "ok"
              /\ t.i < Len(scenes)
              /\ Resolvable(scenes[t.i + 1])
              /\ Len(t.scene_files) = ResolvableBefore(j, t.i)
              /\ c.target = IF c.op = "get_video"
                            THEN scenes[t.i + 1].video_url
                            ELSE scenes[t.i + 1].image_url
         [] c.op = "ffmpeg_segment" ->
              /\ prev.op \in {"get_video", "get_image", "ffmpeg_segment"}
              /\ prev.result = "ok"
              /\ Len(t.scene_files) = ResolvableBefore(j, Len(scenes))
              /\ Len(t.segment_files) < Len(t.scene_files)
              /\ c.target = "segment_" \o Pad3(Len(t.segment_files)) \o ".mp4"
         [] c.op = "ffmpeg_xfade" ->
              /\ prev.op = "ffmpeg_segment"
              /\ prev.result = "ok"
              /\ Len(t.segment_files) = Len(t.scene_files)
         [] c.op = "ffmpeg_concat" ->
              \* the second attempt of the assembly
              /\ prev.op = "ffmpeg_xfade"
              /\ prev.result = "nonzero"
         [] c.op = "ffmpeg_merge" ->
              /\ prev.op \in {"ffmpeg_segment", "ffmpeg_xfade", "ffmpeg_concat"}
              /\ prev.result = "ok"
              /\ Len(t.segment_files) = Len(t.scene_files)
              /\ SilentVideo(j) \in DOMAIN fs
         [] c.op = "ffmpeg_subs" ->
              /\ prev.op = "ffmpeg_merge"
              /\ prev.result = "ok"
              /\ MergedVideo(j) \in DOMAIN fs
         [] c.op = "post_upload" ->
              /\ prev.op \in {"ffmpeg_merge", "ffmpeg_subs"}
              /\ BackupOf(j) \in DOMAIN fs
         [] OTHER -> TRUE

\* the step writes the backup copy of job j: the merge has succeeded, the
\* burn-in (if any) is over, nothing has been uploaded; with burn_ok the
\* burn-in must also have succeeded
BackupInOrder(j, burn_ok) ==
    /\ PrevCall(j).op \in {"ffmpeg_merge", "ffmpeg_subs"}
    /\ HasCallResult(j, "ffmpeg_merge", "ok")
    /\ burn_ok => PrevCall(j).result = "ok"

StepInOrder(j, burn_ok) ==
    /\ (j \in DOMAIN calls /\ Len(calls'[j]) = Len(calls[j]) + 1) =>
           /\ SubSeq(calls'[j], 1, Len(calls[j])) = calls[j]
           /\ CallInOrder(j, calls'[j][Len(calls'[j])])
    /\ (j \in DOMAIN req /\ BackupOf(j) \notin DOMAIN fs
          /\ BackupOf(j) \in DOMAIN fs') => BackupInOrder(j, burn_ok)
    /\ (j \in DOMAIN calls /\ Len(calls'[j]) # Len(calls[j]) + 1) =>
           calls'[j] = calls[j]

\* C19 (as claimed): the actions of a job run in the order audio download,
\* scene downloads in scene order, segment renders in index order, assembly,
\* audio merge, subtitle burn, local backup, upload, and each starts only
\* after the one before it has finished successfully.
C19_PipelineInOrder ==
    [][\A j \in JobIds : StepInOrder(j, TRUE)]_vars

\* C19 (amended): the same order, each action starting only after the one
\* before it has finished, and finished successfully except for the subtitle
\* burn: the local backup is made after a burn-in that failed as well, from
\* the merged video.
C19_PipelineInOrderAmended ==
    [][\A j \in JobIds : StepInOrder(j, FALSE)]_vars

C19_Witness ==
    \E j \in DOMAIN thread :
        /\ HasCallResult(j, "ffmpeg_xfade", "ok")
        /\ HasCallResult(j, "ffmpeg_subs", "nonzero")
        /\ HasCallResult(j, "post_upload", "ok")
        /\ BackupOf(j) \in DOMAIN fs
        /\ lovable_render_jobs[j].status = "completed"

-----------------------------------------------------------------------------
(* Concurrent jobs *)

\* the entry of job j, if there is one
EntryOf(j) ==
    IF j \in DOMAIN lovable_render_jobs
    THEN <<lovable_render_jobs[j]>>
    ELSE << >>

\* C14: with two jobs running at once, an entry of the registry is written
\* only by the submission that creates it and afterwards by steps of that
\* job's own thread, and a step that writes one entry leaves every other
\* entry unchanged.
C14_OnlyOwnEntryWritten ==
    [][\A j \in ConcJobIds :
          EntryOf(j)' # EntryOf(j) =>
              /\ IF j \in DOMAIN lovable_render_jobs
                 THEN ThreadStep(j)
                 ELSE \E data \in ConcRequests(j) : Submit(j, data)
              /\ \A k \in ConcJobIds \ {j} : EntryOf(k)' = EntryOf(k)]_vars

C14_Witness ==
    /\ DOMAIN thread = ConcJobIds
    /\ lovable_render_jobs["j1"].status = "failed"
    /\ lovable_render_jobs["j2"].status = "rendering"
    /\ lovable_render_jobs["j2"].progress = 90
    /\ thread["j1"].pc = "done"

-----------------------------------------------------------------------------
(* The two routes *)

\* the ids that a submission has returned
ReturnedIds == DOMAIN req

\* C15: an authorized status poll answers not-found for every id that no
\* submission has returned, and finds the entry of every returned id at any
\* later time: the entry exists as soon as the id is returned and before the
\* thread runs, and no step removes an entry.
C15_PollFindsReturnedJobs ==
    [][/\ DOMAIN lovable_render_jobs \subseteq DOMAIN lovable_render_jobs'
       /\ ReturnedIds' \subseteq DOMAIN lovable_render_jobs'
       /\ DOMAIN thread' \subseteq DOMAIN lovable_render_jobs'
       /\ \A id \in PollIds, h \in AuthHeaders :
            (verify_lovable_api_key(h) /\ lovable_render_status(id, h)) =>
                IF id \in ReturnedIds
                THEN /\ response'.code = 200
                     /\ response'.body.status = lovable_render_jobs[id].status
                     /\ response'.body.progress
                          = lovable_render_jobs[id].progress
                ELSE response'.code = 404]_vars

C15_Witness ==
    /\ response.route = "lovable_render_status"
    /\ response.code = 200
    /\ response.body.status = "completed"
    /\ \E j \in ReturnedIds : thread[j].pc = "done"

\* the body lacks a project id, a render id or an audio reference, or its
\* scene list is absent, empty or not a list
Lacking(body) ==
    \/ body.project_id \in {None, ""}
    \/ body.render_id \in {None, ""}
    \/ body.audio_url \in {None, ""}
    \/ body.scenes_json # "list"
    \/ Len(body.scenes) = 0

StatusFields == {"status", "progress", "message", "video_url", "error"}

\* C20 (as claimed): the answer to a status poll for a known job exposes
\* exactly status, progress, message, video_url and error of the job, in
\* every state of the job, and no other field of the entry.
C20_PollExposesStatusShape ==
    (response.route = "lovable_render_status" /\ response.code = 200) =>
        DOMAIN response.body \ {"success"} = StatusFields

-----------------------------------------------------------------------------
(* The cross-fade offsets *)

\* the target durations d_0 .. d_(n-1) of the segments, in centiseconds
TargetDurations(scene_files) ==
    [k \in 1..Len(scene_files) |-> SegmentDuration(scene_files[k])]

\* C18: for n >= 2 segments the offset of transition i is
\* (d_0 + ... + d_i) - 0.5, from the target durations: the first offset is
\* d_0 - 0.5 and each later one exceeds the one before it by the duration of
\* its own segment; the durations 5.0, 4.0, 6.0 give the offsets 4.5 and 8.5.
C18_XfadeOffsets ==
    pure_call.returned =>
        LET d == TargetDurations(pure_call.input)
            o == pure_call.output
            n == Len(pure_call.input)
        IN /\ DOMAIN o = 1..(n - 1)
           /\ o[1] = d[1] - 50
           /\ \A i \in 2..(n - 1) : o[i] = o[i - 1] + d[i]
           /\ d = <<500, 400, 600>> => o = <<450, 850>>

C18_Witness ==
    /\ pure_call.returned
    /\ pure_call.input
         = <<[duration |-> 500], [duration |-> 400], [duration |-> 600]>>
    /\ pure_call.output = <<450, 850>>

-----------------------------------------------------------------------------
(* group_words, step by step *)

GroupSt == pure_call.output.st

\* the word the next iteration looks at
GroupW == pure_call.input[pure_call.output.k + 1]

EndsSentence(text) == text # << >> /\ text[Len(text)] \in {".", "!", "?"}

\* a break condition holds for the open cue, its running duration being
\* measured up to `upto`
BreakCondition(st, w, upto) ==
    /\ st.current_words # << >>
    /\ \/ Len(st.current_words) >= 6
       \/ Len(st.current_text) + 1 + Len(WordText(w)) > 40
       \/ upto - st.current_words[1].start > 350
       \/ EndsSentence(st.current_text)

\* the iteration closed the open cue and started a new one with w when
\* `closes`, and appended w to the open cue otherwise
PlacedBy(closes) ==
    LET st == GroupSt
        st2 == pure_call'.output.st
    IN IF closes
       THEN /\ st2.subtitles =
                 Append(st.subtitles,
                        [text  |-> st.current_text,
                         start |-> st.current_words[1].start,
                         end   |-> st.current_words[Len(st.current_words)].end])
            /\ st2.current_words = <<GroupW>>
            /\ st2.current_text = WordText(GroupW)
       ELSE /\ st2.subtitles = st.subtitles
            /\ st2.current_words = Append(st.current_words, GroupW)

ExampleCues ==
    <<[text |-> <<"H", "e", "l", "l", "o", " ", "w", "o", "r", "l", "d", " ",
                  "t", "h", "i", "s", " ", "i", "s", " ", "a", " ",
                  "t", "e", "s", "t">>,
       start |-> 0, end |-> 240],
      [text |-> <<"s", "e", "n", "t", "e", "n", "c", "e", ".">>,
       start |-> 240, end |-> 280]>>

ExampleHolds ==
    (pure_call'.returned /\ pure_call'.input = ExampleWords)
        => pure_call'.output.st.subtitles = ExampleCues

\* C21: group_words closes the open non-empty cue before placing a word
\* exactly when the cue has 6 or more words, or the word would make the text
\* longer than 40 characters, or the cue's running duration (its last word's
\* end minus its first word's start) exceeds 3.5 s, or its text ends in '.',
\* '!' or '?'; otherwise the word is appended.  The seven example words at
\* 0.4 s each give 'Hello world this is a test' and 'sentence.'.
C21_BreakConditions ==
    [][/\ (GroupWord /\ WordText(GroupW) # << >>)
            => PlacedBy(BreakCondition(GroupSt, GroupW,
                          GroupSt.current_words[Len(GroupSt.current_words)].end))
       /\ ExampleHolds]_vars

\* C21, amended: as above, but the duration that is compared with 3.5 s runs
\* from the cue's first word's start to the end of the word about to be
\* placed.
C21_BreakConditionsAmended ==
    [][/\ (GroupWord /\ WordText(GroupW) # << >>)
            => PlacedBy(BreakCondition(GroupSt, GroupW, GroupW.end))
       /\ ExampleHolds]_vars

\* a two-word cue of 2.4 s was closed because the third word ends at 4.4 s
C21_Witness ==
    /\ pure_call.fn = "group_words"
    /\ pure_call.returned
    /\ Len(pure_call.input) = 3
    /\ Len(GroupSt.subtitles) = 2
    /\ GroupSt.subtitles[1] =
         [text |-> <<"o", "k", " ", "s", "o">>, start |-> 0, end |-> 240]
    /\ GroupSt.subtitles[2].end = 440

NonBlank(words) == SelectSeq(words, LAMBDA w : WordText(w) # << >>)

\* number of words in a cue text (no input word holds an inner space)
CueWords(cue) == 1 + Cardinality({i \in 1..Len(cue.text) : cue.text[i] = " "})

\* number of words in the cues before cue i
RECURSIVE WordsBefore(_, _)
WordsBefore(cues, i) ==
    IF i = 1 THEN 0 ELSE WordsBefore(cues, i - 1) + CueWords(cues[i - 1])

RECURSIVE JoinWords(_)
JoinWords(ws) ==
    IF Len(ws) = 1 THEN WordText(ws[1])
    ELSE WordText(ws[1]) \o <<" ">> \o JoinWords(Tail(ws))

\* C29: the cues returned by group_words are a contiguous in-order partition
\* of the non-blank input words: cue i holds the words that follow those of
\* the cues before it, its text is these words joined by single spaces, its
\* start is its first word's start and its end its last word's end, and the
\* cues together hold every non-blank word (the last open cue is flushed).
C29_CuesPartitionWords ==
    (pure_call.fn = "group_words" /\ pure_call.returned) =>
      LET ws == NonBlank(pure_call.input)
          cues == GroupSt.subtitles
      IN /\ ~GroupSt.raised
         /\ WordsBefore(cues, Len(cues) + 1) = Len(ws)
         /\ \A i \in 1..Len(cues) :
              LET a == WordsBefore(cues, i) + 1
                  b == WordsBefore(cues, i + 1)
              IN /\ b <= Len(ws)
                 /\ cues[i].text = JoinWords(SubSeq(ws, a, b))
                 /\ cues[i].start = ws[a].start
                 /\ cues[i].end = ws[b].end
         /\ cues = group_words(pure_call.input).subtitles

\* eight words, one of them blank, grouped into more than one cue, the last
\* of which was still open when the input ended
C29_Witness ==
    /\ pure_call.fn = "group_words"
    /\ pure_call.returned
    /\ Len(pure_call.input) = 8
    /\ Len(NonBlank(pure_call.input)) = 7
    /\ Len(GroupSt.subtitles) >= 2
    /\ ~EndsSentence(GroupSt.subtitles[Len(GroupSt.subtitles)].text)

-----------------------------------------------------------------------------
(* Fetch stage and segment durations *)

DownloadOps == {"get_audio", "get_video", "get_image"}

FailedDownload(c) == c.op \in DownloadOps /\ c.result # "ok"

\* the job's thread is at a scene that has neither reference
AtUnreferencedScene(j) ==
    /\ InSceneLoop(j)
    /\ CurrentScene(j).video_url = None
    /\ CurrentScene(j).image_url = None

\* the step moved on to the next scene and did nothing else
SceneSkipped(j) ==
    /\ thread'[j].pc = "scene"
    /\ thread'[j].i = thread[j].i + 1
    /\ thread'[j].scene_files = thread[j].scene_files
    /\ calls'[j] = calls[j]
    /\ lovable_render_jobs'[j] = lovable_render_jobs[j]
    /\ fs' = fs

\* the step made a call
Called(j) == Len(calls'[j]) = Len(calls[j]) + 1

LastCall(j) == calls'[j][Len(calls'[j])]

\* C22: in the fetch stage a scene with neither an image nor a video
\* reference is skipped, without a download and without failing the job;
\* a failed download of the audio or of a scene asset is not retried (the
\* thread goes to its failure handling, and no download follows), and the
\* job ends failed.
C22_FetchStage ==
    [][\A j \in DOMAIN thread :
         /\ (AtUnreferencedScene(j) /\ thread'[j] # thread[j])
                => SceneSkipped(j)
         /\ (Called(j) /\ FailedDownload(LastCall(j)))
                => thread'[j].pc = "except"
         /\ (Called(j) /\ LastCall(j).op \in DownloadOps)
                => \A k \in 1..Len(calls[j]) : ~FailedDownload(calls[j][k])
         /\ (thread'[j].pc = "done"
               /\ \E k \in 1..Len(calls[j]) : FailedDownload(calls[j][k]))
                => lovable_render_jobs'[j].status = "failed"]_vars

\* the scenes that yield a scene_files entry, in order
ResolvableScenes(j) == SelectSeq(req[j].scenes, Resolvable)

\* the segment encoder runs of the job, in order
SegmentCalls(j) == SelectSeq(calls[j], LAMBDA c : c.op = "ffmpeg_segment")

\* the duration given is absent, zero or not a number
InvalidDuration(scene) ==
    scene.duration.kind # "number" \/ scene.duration.cs = 0

\* C23: every segment is rendered with a duration of at least 0.5 s, and a
\* scene whose given duration is zero, missing or otherwise invalid is
\* rendered with the floor duration of 0.5 s: it is given no other duration
\* and does not fail the job.
C23_DurationFloor ==
    \A j \in DOMAIN calls :
        /\ \A k \in 1..Len(SegmentCalls(j)) :
              /\ SegmentCalls(j)[k].args[1] >= 50
              /\ InvalidDuration(ResolvableScenes(j)[k])
                    => SegmentCalls(j)[k].args[1] = 50
        /\ thread[j].exc.msg # "could not convert string to float"

-----------------------------------------------------------------------------
(* Subtitle stage *)

\* the cues of the job's timing data (none when there is no timing data)
CuesOf(j) == group_words(req[j].word_timestamps).subtitles

GroupingRaises(j) == group_words(req[j].word_timestamps).raised

\* no timing data, or timing data that groups into no cue
NoCues(j) == ~GroupingRaises(j) /\ CuesOf(j) = << >>

\* C24: the subtitle burn-in encoder runs only for a job whose request
\* carries timing data that groups into at least one cue; a job without
\* timing data, or whose words group into no cue, has no burn-in run, is not
\* failed by the subtitle stage, and once its audio merge succeeded reaches
\* the publish stage (the backup copy is made).
C24_BurnOnlyWithCues ==
    \A j \in DOMAIN calls :
        /\ HasCall(j, "ffmpeg_subs") =>
              /\ req[j].word_timestamps # << >>
              /\ ~GroupingRaises(j)
              /\ Len(CuesOf(j)) >= 1
        /\ NoCues(j) =>
              /\ ~HasCall(j, "ffmpeg_subs")
              /\ InDir(RenderDir(j), "subtitles.ass") \notin DOMAIN fs
              /\ (HasCallResult(j, "ffmpeg_merge", "ok")
                    /\ thread[j].pc \in {"except", "done"})
                   => BackupOf(j) \in DOMAIN fs

\* a job whose only word is blank ended completed without a burn-in run
C24_Witness ==
    \E j \in DOMAIN calls :
        /\ req[j].word_timestamps # << >>
        /\ CuesOf(j) = << >>
        /\ thread[j].pc = "done"
        /\ lovable_render_jobs[j].status = "completed"
        /\ ~HasCall(j, "ffmpeg_subs")

-----------------------------------------------------------------------------
(* Working directory *)

\* the files under the job's working directory
WorkFiles(j, files) == {p \in DOMAIN files : p[1] = RenderDir(j)}

Removed == DOMAIN fs \ DOMAIN fs'

\* C25: the job's working directory is removed when, and only when, the job
\* ends completed: files are removed only by the last step of a completed
\* job, which removes the files of that job's working directory and leaves
\* the local backup in place; a thread that returns with status completed
\* leaves no file in its working directory, and one that returns with status
\* failed leaves every file where it was.
C25_WorkDirRemovedIffCompleted ==
    [][/\ Removed # {} =>
             \E j \in DOMAIN thread :
                 /\ thread[j].pc = "finally"
                 /\ lovable_render_jobs[j].status = "completed"
                 /\ Removed = WorkFiles(j, fs)
                 /\ BackupOf(j) \in DOMAIN fs'
                 /\ fs'[BackupOf(j)] = fs[BackupOf(j)]
       /\ \A j \in DOMAIN thread :
             (thread[j].pc # "done" /\ thread'[j].pc = "done") =>
                 /\ lovable_render_jobs'[j].status \in {"completed", "failed"}
                 /\ lovable_render_jobs'[j].status = "completed"
                       => WorkFiles(j, fs') = {}
                 /\ lovable_render_jobs'[j].status = "failed" => fs' = fs]_vars

\* a completed job whose working directory is gone while its backup is still
\* there
C25_Witness ==
    \E j \in DOMAIN thread :
        /\ thread[j].pc = "done"
        /\ lovable_render_jobs[j].status = "completed"
        /\ HasCallResult(j, "ffmpeg_merge", "ok")
        /\ WorkFiles(j, fs) = {}
        /\ BackupOf(j) \in DOMAIN fs

-----------------------------------------------------------------------------
(* Progress bands *)

FetchPcs == {"msg_audio", "get_audio", "msg_media", "scene", "scene_progress"}

SegmentPcs == {"segment_progress", "segment_message"}

AssemblyPcs ==
    {"assemble", "progress75", "concat", "msg_adding_audio", "merge",
     "progress82", "subtitles", "generate_ass", "burn", "progress90"}

PublishPcs ==
    {"backup", "set_local_path", "msg_uploading", "upload", "set_public_url",
     "set_vps_url", "set_upload_error", "set_completed", "set_progress100",
     "msg_complete"}

\* the stage whose next step the job's thread is about to take
StageOf(j) ==
    IF thread[j].pc \in FetchPcs THEN "fetch"
    ELSE IF InSegmentLoop(j) \/ thread[j].pc \in SegmentPcs THEN "segments"
    ELSE IF thread[j].pc \in AssemblyPcs
            \/ (At(j, "segment") /\ ~InSegmentLoop(j)) THEN "assembly"
    ELSE IF thread[j].pc \in PublishPcs THEN "publish"
    ELSE "none"

Band(stage) ==
    CASE stage = "fetch" -> 0..20
      [] stage = "segments" -> 20..70
      [] stage = "assembly" -> 70..90
      [] stage = "publish" -> 90..100
      [] OTHER -> 0..100

\* C26: while a job is in a stage its progress lies in the stage's band:
\* 0..20 during fetch, 20..70 during segment rendering, 70..90 during
\* assembly, audio merge and subtitles, 90..100 during publish.
C26_ProgressBands ==
    \A j \in DOMAIN thread :
        lovable_render_jobs[j].progress \in Band(StageOf(j))

-----------------------------------------------------------------------------
(* Encoder error texts *)

\* t is the last Len(t) elements of s
IsSuffix(t, s) ==
    /\ Len(t) <= Len(s)
    /\ \A k \in 1..Len(t) : t[k] = s[Len(s) - Len(t) + k]

\* C27: the error stored for an encoder failure holds at most 2000 characters
\* of the encoder's diagnostic output, and these are the last characters of
\* that output; the error of a failed segment render names the index of the
\* segment.
C27_ErrorHoldsBoundedTail ==
    (pure_call.fn = "encoder_error" /\ pure_call.returned) =>
        /\ Len(pure_call.output.stderr) <= 2000
        /\ IsSuffix(pure_call.output.stderr, pure_call.input.stderr_text)
        /\ pure_call.input.site = "segment" =>
              /\ "index" \in DOMAIN pure_call.output
              /\ pure_call.output.index = pure_call.input.i

\* segment 1 failed with more diagnostic output than is kept
C27_Witness ==
    /\ pure_call.fn = "encoder_error"
    /\ pure_call.returned
    /\ pure_call.input.site = "segment"
    /\ pure_call.input.i = 1
    /\ ~pure_call.input.timed_out
    /\ Len(pure_call.input.stderr_text) > 2000
    /\ Len(pure_call.output.stderr) = 2000

-----------------------------------------------------------------------------
(* Cross-fade filter graph *)

\* the places (transition, side) where raw segment s is consumed
ConsumersOf(parts, s) ==
    {<<k, side>> \in (1..Len(parts)) \X {"left", "right"} :
        IF side = "left" THEN parts[k].left = [pad |-> "input", n |-> s]
        ELSE parts[k].right = [pad |-> "input", n |-> s]}

\* C30: the cross-fade filter graph for n >= 2 segments has exactly n-1
\* transitions chained left to right: transition 0 consumes raw segments 0
\* and 1, transition i >= 1 consumes the output of transition i-1 and raw
\* segment i+1, every raw segment is consumed exactly once, and the mapped
\* final output is the output of transition n-2.
C30_XfadeChain ==
    (pure_call.fn = "xfade_filter" /\ pure_call.returned) =>
        LET n == Len(pure_call.input)
            parts == pure_call.output.filter_parts
        IN /\ n >= 2
           /\ pure_call.output.inputs = n
           /\ Len(parts) = n - 1
           /\ parts[1].left = [pad |-> "input", n |-> 0]
           /\ parts[1].right = [pad |-> "input", n |-> 1]
           /\ \A i \in 1..(n - 2) :
                 /\ parts[i + 1].left = parts[i].out
                 /\ parts[i + 1].left.pad = "link"
                 /\ parts[i + 1].right = [pad |-> "input", n |-> i + 1]
           /\ \A i, k \in 1..(n - 1) : parts[i].out = parts[k].out => i = k
           /\ \A s \in 0..(n - 1) : Cardinality(ConsumersOf(parts, s)) = 1
           /\ pure_call.output.final_label = parts[n - 1].out

\* three segments: the second transition takes the output of the first
C30_Witness ==
    /\ pure_call.fn = "xfade_filter"
    /\ pure_call.returned
    /\ Len(pure_call.input) = 3
    /\ pure_call.output.filter_parts[2].left = pure_call.output.filter_parts[1].out
    /\ pure_call.output.final_label = [pad |-> "link", n |-> 2]

-----------------------------------------------------------------------------
(* Encoder timeouts *)

\* C28: in each of the three pipeline variants every encoder invocation is
\* bounded by a timeout, so that no encoder that never exits keeps the thread
\* of a job waiting, and with it the job in a non-terminal status, forever.
C28_EncodersBounded ==
    \A v \in DOMAIN thread :
        thread[v].pc = "blocked" =>
            lovable_render_jobs[v].status \in {"completed", "failed"}

-----------------------------------------------------------------------------
(* Segment motion *)

\* C31: the segment of a still-image scene is rendered with a zoom-in motion
\* when its index is even and with a zoom-out motion when its index is odd;
\* the segment of a video-clip scene is rendered without zoom (scaled, padded
\* and trimmed to its duration only).
C31_KenBurns ==
    (pure_call.fn = "segment_cmd" /\ pure_call.returned) =>
        LET c == pure_call.output
            i == pure_call.input.i
        IN IF pure_call.input.sf.is_video
           THEN ~c.zoompan /\ c.t = Max(50, pure_call.input.sf.duration)
           ELSE /\ c.zoompan
                /\ i % 2 = 0 => c.dz > 0
                /\ i % 2 = 1 => c.dz < 0

-----------------------------------------------------------------------------
(* Timecodes *)

RECURSIVE NumberOf(_)
\* the number a digit sequence stands for
NumberOf(ds) ==
    IF ds = << >> THEN 0 ELSE NumberOf(SubSeq(ds, 1, Len(ds) - 1)) * 10 + ds[Len(ds)]

\* the time a timecode denotes, in milliseconds
Denoted(tc) ==
    ((NumberOf(tc.h) * 60 + NumberOf(tc.mm)) * 60 + NumberOf(tc.ss)) * 1000
        + NumberOf(tc.cc) * 10

WellFormed(tc) ==
    /\ Len(tc.h) >= 1
    /\ Len(tc.mm) = 2 /\ NumberOf(tc.mm) \in 0..59
    /\ Len(tc.ss) = 2 /\ NumberOf(tc.ss) \in 0..59
    /\ Len(tc.cc) = 2 /\ NumberOf(tc.cc) \in 0..99

\* C32: every timecode written by secs_to_ass_time and by the inline
\* formatter of create_ass_subtitles for a non-negative time has the form
\* H:MM:SS.CC with minutes in 00..59, seconds in 00..59 and centiseconds in
\* 00..99, and denotes the input time to within one centisecond.
C32_Timecodes ==
    (pure_call.fn \in {"secs_to_ass_time", "inline_ass_time"}
       /\ pure_call.returned) =>
        /\ WellFormed(pure_call.output)
        /\ Denoted(pure_call.output) - pure_call.input \in -10..10

-----------------------------------------------------------------------------
(* Completed jobs and their URL *)

\* the last response is a status poll that found the job
PollAnswered == response.route = "lovable_render_status" /\ response.code = 200

\* C33: whenever a status poll observes status completed for a job, the same
\* response shows a non-null video_url; in the registry no entry has status
\* completed without a video_url.
C33_CompletedHasUrl ==
    /\ (PollAnswered /\ response.body.status = "completed")
          => response.body.video_url # None
    /\ \A j \in DOMAIN lovable_render_jobs :
          lovable_render_jobs[j].status = "completed"
              => lovable_render_jobs[j].video_url # None

\* a poll that came between the write of status completed and the write of
\* progress 100
C33_Witness ==
    /\ PollAnswered
    /\ response.body.status = "completed"
    /\ response.body.progress < 100
    /\ response.body.video_url # None


\* C34: in lovable_render_endpoint.py, whenever a status poll observes status
\* completed for a job, the same response shows progress 100 and a non-null
\* video_url.
C34_EndpointCompletedHasUrl ==
    (PollAnswered /\ response.body.status = "completed") =>
        /\ response.body.progress = 100
        /\ response.body.video_url # None

-----------------------------------------------------------------------------
(* Files of concurrent jobs *)

\* the paths whose content the step changed
Overwritten == {p \in DOMAIN fs \cap DOMAIN fs' : fs'[p] # fs[p]}

\* the paths the step wrote
Written == Overwritten \cup (DOMAIN fs' \ DOMAIN fs)

\* the paths that belong to job j: its working directory and its backup
OwnPaths(j) == {p \in DOMAIN fs' : p[1] = RenderDir(j)} \cup {BackupOf(j)}

\* C35: of two jobs running concurrently no file path is written by both:
\* a step of a job writes only that job's working-directory files and its
\* backup, no step replaces the content of a file that exists, and the file
\* served for a job that ended completed is the video that job rendered.
C35_NoSharedFiles ==
    [][/\ \A j \in ConcJobIds : ThreadStep(j) => Written \subseteq OwnPaths(j)
       /\ Overwritten = {}
       /\ \A j \in DOMAIN thread' :
             (thread'[j].pc = "done"
                /\ lovable_render_jobs'[j].status = "completed") =>
                 ServeVideo(req[j].project_id, req[j].render_id)'
                     = ExpectedFinal(j)']_vars


-----------------------------------------------------------------------------
(* The cross-fade offsets against the streams they cut *)

RECURSIVE StreamLength(_, _)
\* the length of the stream transition k (counted from 1) takes as its first
\* input: segment 0 for the first transition, the output of the transition
\* before it otherwise, a cross-fade of streams of lengths A and B being
\* A + B - fade_duration long
StreamLength(scene_files, k) ==
    IF k = 1 THEN SegmentDuration(scene_files[1])
    ELSE StreamLength(scene_files, k - 1) + SegmentDuration(scene_files[k])
             - fade_duration

\* C36: for n >= 2 segments of at least 0.5 s each, every transition starts
\* at an offset >= 0 and ends (offset + fade) within the stream it consumes
\* as its first input, and the offsets are strictly increasing.
C36_OffsetsInsideStreams ==
    pure_call.returned =>
        LET sf == pure_call.input
            o  == pure_call.output
        IN \A k \in DOMAIN o :
              /\ 0 <= o[k]
              /\ o[k] + fade_duration <= StreamLength(sf, k)
              /\ k > 1 => o[k - 1] < o[k]


-----------------------------------------------------------------------------
(* The cues of group_words *)

\* the non-blank input words that make up cue i
WordsOfCue(ws, cues, i) ==
    SubSeq(ws, WordsBefore(cues, i) + 1, WordsBefore(cues, i + 1))

\* C37: for words with non-decreasing timestamps, every cue returned by
\* group_words has between 1 and 6 words; a cue of two or more words has a
\* text of at most 40 characters and spans at most 3.5 s from its first
\* word's start to its last word's end; and in every cue only the last word
\* may end in '.', '!' or '?'.
C37_CueLimits ==
    (pure_call.fn = "group_words" /\ pure_call.returned) =>
      LET ws == NonBlank(pure_call.input)
          cues == GroupSt.subtitles
      IN \A i \in 1..Len(cues) :
           LET cw == WordsOfCue(ws, cues, i)
           IN /\ Len(cw) \in 1..6
              /\ Len(cw) >= 2 =>
                    /\ Len(cues[i].text) <= 40
                    /\ cw[Len(cw)].end - cw[1].start <= 350
              /\ \A k \in 1..(Len(cw) - 1) : ~EndsSentence(WordText(cw[k]))

\* a cue of six words whose last word ends a sentence, followed by a cue of
\* two words that spans more than 2 s
C37_Witness ==
    /\ pure_call.fn = "group_words"
    /\ pure_call.returned
    /\ LET ws == NonBlank(pure_call.input)
           cues == GroupSt.subtitles
       IN /\ Len(cues) = 2
          /\ Len(WordsOfCue(ws, cues, 1)) = 6
          /\ EndsSentence(cues[1].text)
          /\ Len(WordsOfCue(ws, cues, 2)) = 2
          /\ cues[2].end - cues[2].start > 200


-----------------------------------------------------------------------------
(* The segment list at assembly *)

\* the scene downloads of the job, in order
SceneDownloads(j) ==
    SelectSeq(calls[j], LAMBDA c : c.op \in {"get_video", "get_image"})

\* the job has finished the segment loop and is at, or just past, the
\* assembly of the silent video
AssemblyStarted(j) ==
    Started(j) /\ thread[j].pc \in {"assemble", "concat", "progress75"}

\* the reference a resolvable scene is fetched from: its video when it has one
FetchedFrom(scene) ==
    IF scene.video_url # None
    THEN [op |-> "get_video", url |-> scene.video_url]
    ELSE [op |-> "get_image", url |-> scene.image_url]

\* the durations the segment encoder runs of the job were given
RenderedDurations(j) ==
    [k \in 1..Len(SegmentCalls(j)) |-> SegmentCalls(j)[k].args[1]]

RECURSIVE SumTo(_, _)
SumTo(d, k) == IF k = 0 THEN 0 ELSE SumTo(d, k - 1) + d[k]

\* C38: when assembly starts, segment_files holds exactly one segment per
\* resolvable scene, in the order of the submitted scenes, a scene with both
\* references being fetched from its video; and the cross-fade offsets are
\* computed from the same floored durations the segments were rendered with.
C38_SegmentsMatchScenes ==
    \A j \in DOMAIN thread :
        /\ AssemblyStarted(j) =>
             LET rs  == ResolvableScenes(j)
                 sf  == thread[j].scene_files
                 seg == thread[j].segment_files
                 dl  == SceneDownloads(j)
                 sc  == SegmentCalls(j)
             IN /\ Len(seg) = Len(rs)
                /\ Len(sf) = Len(rs)
                /\ Len(dl) = Len(rs)
                /\ Len(sc) = Len(rs)
                /\ \A k \in 1..Len(rs) :
                      /\ dl[k].op = FetchedFrom(rs[k]).op
                      /\ dl[k].target = FetchedFrom(rs[k]).url
                      /\ sf[k].is_video = (rs[k].video_url # None)
                      /\ fs[sf[k].path] = "bytes:" \o FetchedFrom(rs[k]).url
                      /\ sf[k].duration = SceneDuration(rs[k])
                      /\ seg[k] = InDir(RenderDir(j),
                                        "segment_" \o Pad3(k - 1) \o ".mp4")
                      /\ sc[k].target = seg[k][2]
                      /\ sc[k].result = "ok"
                      /\ sc[k].args[1] = SegmentDuration(sf[k])
        /\ \A n \in 1..Len(calls[j]) :
              calls[j][n].op = "ffmpeg_xfade" =>
                  LET d == RenderedDurations(j)
                  IN calls[j][n].args
                       = [k \in 1..(Len(d) - 1) |-> SumTo(d, k) - fade_duration]

\* two scenes, the first carrying both references and a duration below the
\* floor, were rendered and cross-faded
C38_Witness ==
    \E j \in DOMAIN thread :
        /\ thread[j].pc = "progress75"
        /\ Len(req[j].scenes) = 2
        /\ req[j].scenes[1].video_url # None
        /\ req[j].scenes[1].image_url # None
        /\ Len(thread[j].segment_files) = 2
        /\ SceneDownloads(j)[1].op = "get_video"
        /\ HasCallResult(j, "ffmpeg_xfade", "ok")
        /\ RenderedDurations(j) = <<50, 1000>>
=============================================================================
